---- MODULE Spec2Model ----
(***************************************************************************)
(* Receipt verification and payment ledger of the TMZ BRAND VIP bot.       *)
(*                                                                         *)
(* Two programs are modelled, each with its own store connection:          *)
(*   - the Telegram bot, src/ocr_bot_fixed.py, whose handlers run one at   *)
(*     a time on the dispatcher thread;                                    *)
(*   - the Flask backend, src/spelling.py, whose request handlers run on   *)
(*     concurrent threads that share one sqlite3 connection and cursor.    *)
(*                                                                         *)
(* A receipt text is the sequence of its lines (the OCR string split on    *)
(* "\n"); a line is a string.  None is the text with no line, the empty    *)
(* string is the text with one empty line.  Amounts read from a text are   *)
(* kept in hundredths (cents), which is exact for the at most two decimal  *)
(* digits the patterns accept.                                             *)
(***************************************************************************)
EXTENDS Integers, Sequences, FiniteSets, TLC

----------------------------------------------------------------------------
(* Characters and strings (Python str methods used by the source)          *)

Ch(s, i) == SubSeq(s, i, i)

LowerAlpha == "abcdefghijklmnopqrstuvwxyz"
UpperAlpha == "ABCDEFGHIJKLMNOPQRSTUVWXYZ"
DigitAlpha == "0123456789"

LowerSet == {Ch(LowerAlpha, i) : i \in 1..26}
UpperSet == {Ch(UpperAlpha, i) : i \in 1..26}
DigitSet == {Ch(DigitAlpha, i) : i \in 1..10}

IsDigit(c) == c \in DigitSet
\* the character class [0-9,]
IsNumCh(c) == c \in DigitSet \/ c = ","
\* the character class \w
IsWordCh(c) == c \in DigitSet \/ c \in LowerSet \/ c \in UpperSet \/ c = "_"
\* the character class \s, within one line
IsSpace(c) == c = " "

DigitVal(c) == (CHOOSE i \in 1..10 : Ch(DigitAlpha, i) = c) - 1

UpperCh(c) ==
    IF c \in LowerSet
    THEN Ch(UpperAlpha, CHOOSE i \in 1..26 : Ch(LowerAlpha, i) = c)
    ELSE c

LowerCh(c) ==
    IF c \in UpperSet
    THEN Ch(LowerAlpha, CHOOSE i \in 1..26 : Ch(UpperAlpha, i) = c)
    ELSE c

RECURSIVE UpperFrom(_, _)
UpperFrom(s, i) ==
    IF i > Len(s) THEN "" ELSE UpperCh(Ch(s, i)) \o UpperFrom(s, i + 1)

\* str.upper()
Upper(s) == UpperFrom(s, 1)

RECURSIVE LowerFrom(_, _)
LowerFrom(s, i) ==
    IF i > Len(s) THEN "" ELSE LowerCh(Ch(s, i)) \o LowerFrom(s, i + 1)

\* str.lower()
Lower(s) == LowerFrom(s, 1)

\* needle in hay
Contains(hay, needle) ==
    \/ Len(needle) = 0
    \/ \E i \in 1..(Len(hay) - Len(needle) + 1) :
          SubSeq(hay, i, i + Len(needle) - 1) = needle

RECURSIVE RemoveFrom(_, _, _)
RemoveFrom(s, c, i) ==
    IF i > Len(s) THEN ""
    ELSE (IF Ch(s, i) = c THEN "" ELSE Ch(s, i)) \o RemoveFrom(s, c, i + 1)

\* str.replace(c, '') for a one-character c
Remove(s, c) == RemoveFrom(s, c, 1)

\* str.strip()
Strip(s) ==
    LET keep == {i \in 1..Len(s) : ~IsSpace(Ch(s, i))}
    IN  IF keep = {} THEN ""
        ELSE SubSeq(s, CHOOSE i \in keep : \A j \in keep : i <= j,
                       CHOOSE i \in keep : \A j \in keep : j <= i)

\* the first whitespace-separated word of s: s.split()[0]
FirstWordOf(t) ==
    LET sp == {i \in 1..Len(t) : IsSpace(Ch(t, i))}
    IN  IF sp = {} THEN t
        ELSE SubSeq(t, 1, (CHOOSE i \in sp : \A j \in sp : i <= j) - 1)

FirstWord(s) == FirstWordOf(Strip(s))

----------------------------------------------------------------------------
(* Numbers read from a text                                                *)

\* Python None, as the result of an amount search
NoAmount == -1

Min(S) == CHOOSE x \in S : \A y \in S : x <= y
Max(S) == CHOOSE x \in S : \A y \in S : y <= x
Abs(n) == IF n < 0 THEN 0 - n ELSE n

\* First element of a sequence of search results that is an amount.
FirstFound(results) ==
    LET hit == {i \in 1..Len(results) : results[i] # NoAmount}
    IN  IF hit = {} THEN NoAmount ELSE results[Min(hit)]

\* Integer value of a digit string.  Values from 20,000,000 up are all read
\* as 20,000,000: they lie outside every window the source compares with,
\* and hundredths of larger values do not fit the checker's integers.
RECURSIVE DigitsValue(_, _, _)
DigitsValue(s, i, acc) ==
    IF i > Len(s) THEN acc
    ELSE LET v == acc * 10 + DigitVal(Ch(s, i))
         IN  DigitsValue(s, i + 1, IF v > 20000000 THEN 20000000 ELSE v)

\* float(tok.replace(',', '')) in hundredths, for a token of digits, commas
\* and at most one "." followed by at most two digits; NoAmount stands for
\* the ValueError float() raises on a token without any digit.
ParseParts(ip, dp) ==
    IF Len(ip) + Len(dp) = 0 THEN NoAmount
    ELSE 100 * DigitsValue(ip, 1, 0)
           + (IF Len(dp) = 0 THEN 0
              ELSE IF Len(dp) = 1 THEN 10 * DigitVal(Ch(dp, 1))
              ELSE 10 * DigitVal(Ch(dp, 1)) + DigitVal(Ch(dp, 2)))

\* position of the first "." of t, Len(t) + 1 when it has none
DotPos(t) ==
    LET dots == {i \in 1..Len(t) : Ch(t, i) = "."}
    IN  IF dots = {} THEN Len(t) + 1 ELSE Min(dots)

ParseAt(t, p) == ParseParts(SubSeq(t, 1, p - 1), SubSeq(t, p + 1, Len(t)))

ParseClean(t) == ParseAt(t, DotPos(t))

ParseCents(tok) == ParseClean(Remove(tok, ","))

\* an integer amount of the ledger, in hundredths
Cents(n) == 100 * n

DigitAt(s, i) == i >= 1 /\ i <= Len(s) /\ IsDigit(Ch(s, i))

\* Last index of the maximal run of [0-9,] that starts at i.
RECURSIVE NumRunEnd(_, _)
NumRunEnd(s, i) ==
    IF i + 1 <= Len(s) /\ IsNumCh(Ch(s, i + 1)) THEN NumRunEnd(s, i + 1) ELSE i

\* Last index of the match of  [0-9,]+\.?[0-9]{2}  that starts at i, 0 when
\* there is none.  The run is taken greedily; when ".dd" does not follow,
\* the run gives back characters until two digits close the match.
Decimal2End(s, i, j) ==
    IF /\ j + 1 <= Len(s) /\ Ch(s, j + 1) = "."
       /\ DigitAt(s, j + 2) /\ DigitAt(s, j + 3)
    THEN j + 3
    ELSE LET ks == {k \in (i + 1)..(j - 1) :
                       DigitAt(s, k) /\ DigitAt(s, k + 1)}
         IN  IF ks = {} THEN 0 ELSE Max(ks) + 1

MatchDecimal2(s, i) ==
    IF ~(i >= 1 /\ i <= Len(s) /\ IsNumCh(Ch(s, i))) THEN 0
    ELSE Decimal2End(s, i, NumRunEnd(s, i))

\* re.findall(r'[0-9,]+\.?[0-9]{2}', s), from position p on
RECURSIVE FindAllDecimal2(_, _)
\* the match that ends at e (none when e = 0) and the matches after it
Decimal2Matches(s, p, e) ==
    IF e = 0 THEN FindAllDecimal2(s, p + 1)
    ELSE <<SubSeq(s, p, e)>> \o FindAllDecimal2(s, e + 1)

FindAllDecimal2(s, p) ==
    IF p > Len(s) THEN << >> ELSE Decimal2Matches(s, p, MatchDecimal2(s, p))

\* Last index of the match of  [0-9,]+\.?[0-9]{0,2}  that starts at i.
Decimal02End(s, j) ==
    IF j + 1 <= Len(s) /\ Ch(s, j + 1) = "."
    THEN IF DigitAt(s, j + 2)
         THEN IF DigitAt(s, j + 3) THEN j + 3 ELSE j + 2
         ELSE j + 1
    ELSE j

MatchDecimal02(s, i) ==
    IF ~(i >= 1 /\ i <= Len(s) /\ IsNumCh(Ch(s, i))) THEN 0
    ELSE Decimal02End(s, NumRunEnd(s, i))

\* re.findall(r'[0-9,]+\.?[0-9]{0,2}', s), from position p on
RECURSIVE FindAllDecimal02(_, _)
Decimal02Matches(s, p, e) ==
    IF e = 0 THEN FindAllDecimal02(s, p + 1)
    ELSE <<SubSeq(s, p, e)>> \o FindAllDecimal02(s, e + 1)

FindAllDecimal02(s, p) ==
    IF p > Len(s) THEN << >> ELSE Decimal02Matches(s, p, MatchDecimal02(s, p))

\* a word boundary \b between positions i and i + 1 of s
Boundary(s, i) ==
    (i >= 1 /\ i <= Len(s) /\ IsWordCh(Ch(s, i)))
        # (i + 1 >= 1 /\ i + 1 <= Len(s) /\ IsWordCh(Ch(s, i + 1)))

\* number of consecutive digits from position i on
RECURSIVE DigitRunLen(_, _)
DigitRunLen(s, i) == IF DigitAt(s, i) THEN 1 + DigitRunLen(s, i + 1) ELSE 0

\* number of consecutive groups ",ddd" that start at position i
RECURSIVE GroupRunLen(_, _)
GroupRunLen(s, i) ==
    IF /\ i <= Len(s) /\ Ch(s, i) = ","
       /\ DigitAt(s, i + 1) /\ DigitAt(s, i + 2) /\ DigitAt(s, i + 3)
    THEN 1 + GroupRunLen(s, i + 4)
    ELSE 0

\* Last index of the match of  \b[0-9]{1,n}(?:,[0-9]{3})*(?:\.[0-9]{0,2})?\b
\* that starts at i, 0 when there is none.  A candidate is <<digits, groups,
\* decimal part, end>>, the decimal part being 3 for ".dd", 2 for ".d", 1
\* for "." and 0 for none; the regex engine prefers more digits, then more
\* groups, then the longer decimal part.
GroupedCandidates(s, i, n, run) ==
    {c \in UNION {{<<d, g, f, i + d - 1 + 4 * g + f>> :
                      g \in 0..GroupRunLen(s, i + d), f \in 0..3} :
                  d \in 1..(IF run < n THEN run ELSE n)} :
        /\ c[3] >= 1 => (c[4] - c[3] + 1 <= Len(s)
                         /\ Ch(s, c[4] - c[3] + 1) = ".")
        /\ c[3] >= 2 => DigitAt(s, c[4] - c[3] + 2)
        /\ c[3] >= 3 => DigitAt(s, c[4] - c[3] + 3)
        /\ Boundary(s, c[4])}

Preferred(c, o) ==
    \/ c[1] > o[1]
    \/ c[1] = o[1] /\ c[2] > o[2]
    \/ c[1] = o[1] /\ c[2] = o[2] /\ c[3] >= o[3]

BestCandidate(cands) ==
    IF cands = {} THEN 0
    ELSE (CHOOSE c \in cands : \A o \in cands : Preferred(c, o))[4]

MatchGrouped(s, i, n) ==
    IF ~(DigitAt(s, i) /\ Boundary(s, i - 1)) THEN 0
    ELSE BestCandidate(GroupedCandidates(s, i, n, DigitRunLen(s, i)))

\* re.findall of the grouped-number pattern in one line, from position p on
RECURSIVE FindAllGrouped(_, _, _)
GroupedMatches(s, p, n, e) ==
    IF e = 0 THEN FindAllGrouped(s, p + 1, n)
    ELSE <<SubSeq(s, p, e)>> \o FindAllGrouped(s, e + 1, n)

FindAllGrouped(s, p, n) ==
    IF p > Len(s) THEN << >>
    ELSE GroupedMatches(s, p, n, MatchGrouped(s, p, n))

\* the matches of the grouped-number pattern in the whole text, in order
RECURSIVE FindAllGroupedText(_, _, _)
FindAllGroupedText(lines, k, n) ==
    IF k > Len(lines) THEN << >>
    ELSE FindAllGrouped(lines[k], 1, n) \o FindAllGroupedText(lines, k + 1, n)

\* the whole (stripped) line is  [0-9,]+  : re.match(r'^\s*[0-9,]+\s*$')
IsStandaloneNumber(t) ==
    Len(t) >= 1 /\ \A i \in 1..Len(t) : IsNumCh(Ch(t, i))

\* the whole (stripped) line is  [0-9,]+\.?[0-9]{0,2}
IsMoneyLine(t) ==
    /\ Len(t) >= 1
    /\ IsNumCh(Ch(t, 1))
    /\ MatchDecimal02(t, 1) = Len(t)

----------------------------------------------------------------------------
(* Amount Extractor                                                        *)

\* None and the empty string are both falsy: "if not extracted_text"
IsFalsyText(text) == text = << >> \/ text = <<"">>

\* 50 <= amount <= 1000000
InWindow(c) == Cents(50) <= c /\ c <= Cents(1000000)

\* amount != 2025.0 and amount != 2024.0 and amount != 2026.0
NotYear(c) == c # Cents(2025) /\ c # Cents(2024) /\ c # Cents(2026)

DateWords ==
    {"OCT", "NOV", "DEC", "JAN", "FEB", "MAR", "APR", "MAY", "JUN", "JUL",
     "AUG", "SEP", "2025", "2024", "2026"}

\* one line of the PalmPay special case: the first match of the line only
PalmPayAmount(amount) ==
    IF amount # NoAmount /\ InWindow(amount) /\ NotYear(amount)
    THEN amount ELSE NoAmount

PalmPayFirst(ms) ==
    IF ms = << >> THEN NoAmount ELSE PalmPayAmount(ParseCents(ms[1]))

PalmPayLine(line) == PalmPayFirst(FindAllDecimal2(Strip(line), 1))

\* one line of strategy 1: the decimal matches in order, then the line as a
\* standalone number
DecimalAmounts(ms) == [k \in 1..Len(ms) |-> PalmPayAmount(ParseCents(ms[k]))]

\* 50 <= amount <= 1000000 and amount != 2025.0
StandaloneAmount(amount) ==
    IF amount # NoAmount /\ InWindow(amount) /\ amount # Cents(2025)
    THEN amount ELSE NoAmount

Strategy1Clean(clean) ==
    IF \E w \in DateWords : Contains(Upper(clean), w) THEN NoAmount
    ELSE FirstFound(DecimalAmounts(FindAllDecimal2(clean, 1))
                    \o <<IF IsStandaloneNumber(clean)
                         THEN StandaloneAmount(ParseCents(clean))
                         ELSE NoAmount>>)

Strategy1Line(line) == Strategy1Clean(Strip(line))

\* strategy 2, one checked line: the line j before a keyword line
Strategy2Amounts(ms) ==
    [k \in 1..Len(ms) |-> StandaloneAmount(ParseCents(ms[k]))]

Strategy2Line(line) ==
    FirstFound(Strategy2Amounts(FindAllDecimal02(Strip(line), 1)))

\* strategy 2, keyword line i: the lines max(0, i-2) .. i-1 (0-based) before it
Strategy2At(lines, i) ==
    IF \/ Contains(Upper(lines[i]), "SUCCESSFUL")
       \/ Contains(Upper(lines[i]), "TRANSACTION")
    THEN LET first == IF i - 2 < 1 THEN 1 ELSE i - 2
         IN  FirstFound([k \in 1..(i - first) |-> Strategy2Line(lines[first + k - 1])])
    ELSE NoAmount

\* strategy 3: the valid amounts among the grouped numbers of the text.
\* Of the two denylisted literals of line 380, 8079304530 is read as
\* 20,000,000 like every value from there up; both lie outside the window.
ParsedTokens(toks) == [k \in 1..Len(toks) |-> ParseCents(toks[k])]

Strategy3Ok(amount) ==
    /\ amount # NoAmount /\ InWindow(amount) /\ NotYear(amount)
    /\ amount # Cents(20000000) /\ amount # Cents(9077430)

Strategy3Valid(amounts) ==
    [k \in {k \in DOMAIN amounts : Strategy3Ok(amounts[k])} |-> amounts[k]]

ValidAmounts(lines) ==
    Strategy3Valid(ParsedTokens(FindAllGroupedText(lines, 1, 6)))

\* min(valid, key=lambda x: abs(x - expected)): the first of the closest
Closest(valid, expected) ==
    LET idx  == DOMAIN valid
        best == {k \in idx : \A o \in idx :
                    Abs(valid[k] - expected) <= Abs(valid[o] - expected)}
    IN  valid[Min(best)]

Strategy3Pick(valid, expected_amount) ==
    IF DOMAIN valid = {} THEN NoAmount
    ELSE IF expected_amount # 0 THEN Closest(valid, Cents(expected_amount))
    ELSE Max({valid[k] : k \in DOMAIN valid})

Strategy3(lines, expected_amount) ==
    Strategy3Pick(ValidAmounts(lines), expected_amount)

\* strategy 4, one of the first five lines
WindowAmount(amount) ==
    IF amount # NoAmount /\ InWindow(amount) THEN amount ELSE NoAmount

Strategy4Clean(clean) ==
    IF IsMoneyLine(clean) THEN WindowAmount(ParseCents(clean)) ELSE NoAmount

Strategy4Line(line) == Strategy4Clean(Strip(line))

\* extract_amount_from_text of the bot; expected_amount is an integer of the
\* ledger, the result is in hundredths or NoAmount
extract_amount_from_text(text, expected_amount) ==
    IF IsFalsyText(text) THEN NoAmount
    ELSE FirstFound(
           << FirstFound([i \in 1..Len(text) |-> PalmPayLine(text[i])]),
              FirstFound([i \in 1..Len(text) |-> Strategy1Line(text[i])]),
              FirstFound([i \in 1..Len(text) |-> Strategy2At(text, i)]),
              Strategy3(text, expected_amount),
              FirstFound([i \in 1..(IF Len(text) < 5 THEN Len(text) ELSE 5) |->
                            Strategy4Line(text[i])]) >>)

\* 50 <= amt <= 10_000_000 of the backend
ApiInWindow(c) == Cents(50) <= c /\ c <= Cents(10000000)

ApiAmount(amt) == IF amt # NoAmount /\ ApiInWindow(amt) THEN amt ELSE NoAmount

ApiDecimalAmounts(ms) == [k \in 1..Len(ms) |-> ApiAmount(ParseCents(ms[k]))]

ApiDecimalLine(line) == FirstFound(ApiDecimalAmounts(FindAllDecimal02(line, 1)))

ApiValid(amounts) ==
    [k \in {k \in DOMAIN amounts : ApiAmount(amounts[k]) # NoAmount} |->
        amounts[k]]

ApiValidAmounts(lines) ==
    ApiValid(ParsedTokens(FindAllGroupedText(lines, 1, 9)))

\* extract_amount_from_text of the backend
ApiPick(valid, expected_amount) ==
    IF DOMAIN valid = {} THEN NoAmount
    ELSE IF expected_amount # 0 THEN Closest(valid, Cents(expected_amount))
    ELSE Max({valid[k] : k \in DOMAIN valid})

api_extract_amount_from_text(text, expected_amount) ==
    IF IsFalsyText(text) THEN NoAmount
    ELSE FirstFound(
           << FirstFound([i \in 1..Len(text) |-> ApiDecimalLine(text[i])]),
              ApiPick(ApiValidAmounts(text), expected_amount) >>)

----------------------------------------------------------------------------
(* Field Matcher and Receipt Verifier                                      *)

\* RECEIVER_NAME of the environment, as configured
RECEIVER_NAME == "JOHN DOE"

\* [line.strip() for line in extracted_text.split('\n') if line.strip()]
StrippedLines(text) ==
    LET keep == SelectSeq(text, LAMBDA l : Strip(l) # "")
    IN  [i \in 1..Len(keep) |-> Strip(keep[i])]

\* pat in extracted_text, for a pattern without a line break
TextContains(text, pat) ==
    pat = "" \/ \E i \in 1..Len(text) : Contains(text[i], pat)

\* CONDITION 1 of the bot: the detected amount equals the expected amount
AmountMatches(detected_amount, expected_amount) ==
    /\ detected_amount # NoAmount
    /\ detected_amount # 0
    /\ detected_amount = Cents(expected_amount)

\* CONDITION 2 of the bot
receiver_variations ==
    <<Upper(RECEIVER_NAME),
      Upper(Remove(RECEIVER_NAME, " ")),
      IF Contains(RECEIVER_NAME, " ") THEN Upper(FirstWord(RECEIVER_NAME))
      ELSE Upper(RECEIVER_NAME)>>

FoundAny(lines, variations) ==
    \E i \in 1..Len(lines) : \E k \in 1..Len(variations) :
        /\ Contains(Upper(lines[i]), variations[k])
        /\ Len(variations[k]) > 3

ReceiverFound(lines) == FoundAny(lines, receiver_variations)

\* CONDITION 3 of the bot
ReferenceFound(lines, ref) ==
    \E i \in 1..Len(lines) : Contains(Upper(lines[i]), Upper(ref))

\* CONDITION 4 of the bot
success_indicators ==
    {"SUCCESS", "SUCCESSFUL", "COMPLETED", "COMPLETE", "APPROVED", "CONFIRMED",
     "TRANSACTION SUCCESS"}

StatusFound(lines) ==
    \E i \in 1..Len(lines) : \E ind \in success_indicators :
        Contains(Upper(lines[i]), ind)

\* The result of a verification: accepted, the conditions the answer names
\* as failed, the detected amount the answer shows, and whether the call
\* raised instead of returning.
Verdict(acc, rs, det, exc) ==
    [accepted |-> acc, reasons |-> rs, detected |-> det, raised |-> exc]

\* the chain of conditions with CONDITION 4 left out
ConditionsWithoutStatus(lines, detected_amount, expected_amount, ref) ==
    IF ~AmountMatches(detected_amount, expected_amount)
    THEN IF detected_amount = NoAmount \/ detected_amount = 0
         THEN Verdict(FALSE, {}, NoAmount, TRUE)
         ELSE Verdict(FALSE, {"amount"}, detected_amount, FALSE)
    ELSE IF ~ReceiverFound(lines)
    THEN Verdict(FALSE, {"receiver"}, NoAmount, FALSE)
    ELSE IF ~ReferenceFound(lines, ref)
    THEN Verdict(FALSE, {"reference"}, NoAmount, FALSE)
    ELSE Verdict(TRUE, {}, NoAmount, FALSE)

\* verify_all_conditions: the conditions in order, returning at the first
\* that fails.  When no amount is detected the message formats the string
\* "Not found" with the format ",", which raises ValueError.
Conditions(lines, detected_amount, expected_amount, ref) ==
    IF ~AmountMatches(detected_amount, expected_amount)
    THEN IF detected_amount = NoAmount \/ detected_amount = 0
         THEN Verdict(FALSE, {}, NoAmount, TRUE)
         ELSE Verdict(FALSE, {"amount"}, detected_amount, FALSE)
    ELSE IF ~ReceiverFound(lines)
    THEN Verdict(FALSE, {"receiver"}, NoAmount, FALSE)
    ELSE IF ~ReferenceFound(lines, ref)
    THEN Verdict(FALSE, {"reference"}, NoAmount, FALSE)
    ELSE IF ~StatusFound(lines)
    THEN Verdict(FALSE, {"success_status"}, NoAmount, FALSE)
    ELSE Verdict(TRUE, {}, NoAmount, FALSE)

verify_all_conditions(extracted_text, expected_amount, ref) ==
    IF IsFalsyText(extracted_text)
    THEN Verdict(FALSE, {"unreadable"}, NoAmount, FALSE)
    ELSE Conditions(StrippedLines(extracted_text),
                    extract_amount_from_text(extracted_text, expected_amount),
                    expected_amount, ref)

\* the backend's amount condition: found and within 1 of the expected
ApiAmountError(amount_found, expected_amount) ==
    IF amount_found = NoAmount \/ amount_found = 0 THEN {"amount"}
    ELSE IF Abs(amount_found - Cents(expected_amount)) > Cents(1) THEN {"amount"}
    ELSE {}

\* the backend's receiver check: the full name or its first word, anywhere
UpperText(text) == [i \in 1..Len(text) |-> Upper(text[i])]

ReceiverPattern(upper, pat) == pat # "" /\ TextContains(upper, pat)

ApiReceiverIn(upper, name) ==
    \/ ReceiverPattern(upper, Upper(name))
    \/ ReceiverPattern(upper, IF name # "" THEN Upper(FirstWord(name)) ELSE "")

ApiReceiverFound(text) == ApiReceiverIn(UpperText(text), RECEIVER_NAME)

\* ref.replace('fintech', ''): a generated reference is the prefix and digits
RefNumber(ref) == SubSeq(ref, Len("fintech") + 1, Len(ref))

\* the backend's reference check: the full reference, else its number
ApiReferenceFound(text, ref) ==
    \/ TextContains(UpperText(text), Upper(ref))
    \/ TextContains(text, RefNumber(ref))

status_indicators == {"success", "successful", "completed", "approved", "confirmed"}

ApiStatusFound(text) ==
    \E ind \in status_indicators :
        TextContains([i \in 1..Len(text) |-> Lower(text[i])], ind)

\* lines 314-348 of verify_receipt: all four checks, every failure listed
ApiErrors(extracted_text, amount_found, expected_amount, ref) ==
    ApiAmountError(amount_found, expected_amount)
    \cup (IF ApiReceiverFound(extracted_text) THEN {} ELSE {"receiver"})
    \cup (IF ApiReferenceFound(extracted_text, ref) THEN {} ELSE {"reference"})
    \cup (IF ApiStatusFound(extracted_text) THEN {} ELSE {"success_status"})

ApiVerdict(errors, amount_found) ==
    Verdict(errors = {}, errors, amount_found, FALSE)

ApiChecks(extracted_text, amount_found, expected_amount, ref) ==
    ApiVerdict(ApiErrors(extracted_text, amount_found, expected_amount, ref),
               amount_found)

api_verify(extracted_text, expected_amount, ref) ==
    ApiChecks(extracted_text,
              api_extract_amount_from_text(extracted_text, expected_amount),
              expected_amount, ref)

----------------------------------------------------------------------------
(* Configuration, bounds and inputs                                        *)

\* PAYMENT_TIMEOUT_MINUTES / TIMEOUT_MINUTES of the environment (default)
TIMEOUT_MINUTES == 20
\* BASE_AMOUNT of the environment (default)
BASE_AMOUNT == 2000

\* The clock is observed every TIMEOUT_MINUTES * 60 seconds, MaxTicks times.
MaxTicks == 2
TickLen  == TIMEOUT_MINUTES * 60

\* The backend is observed over its first MaxRequests requests.
MaxRequests == 3

\* Number of distinct values random.randint(100000, 999999) takes here.
NumRefs == 2
RefDigits == <<"123456", "654321", "100000", "999999", "555555">>

Users == {1, 2}
UserName(u) == IF u = 1 THEN "Ada" ELSE "Bayo"

\* amounts a backend client asks for
ApiAmounts == {BASE_AMOUNT}

\* generate_reference(): the prefix and six random digits
generate_reference(prefix) == {prefix \o RefDigits[i] : i \in 1..NumRefs}

BotPrefix == "tmzbrand"
ApiPrefix == "fintech"

\* OCR results of the uploaded images: None, the empty string, and receipts
\* that carry or lack each of the four fields
ReceiptLines(amt, ref, to, st) ==
    <<"AMOUNT", amt, st>> \o (IF ref = "" THEN << >> ELSE <<"REF: " \o ref>>)
                          \o <<to>>

NoneText  == << >>
EmptyText == <<"">>

\* the receipt of a transfer of BASE_AMOUNT made with reference ref
GoodReceipt(ref) ==
    ReceiptLines("2,000.00", ref, "TO: JOHN DOE", "STATUS: Successful")

\* receipts for the first reference with one field or several off
FlawedReceipts(ref) ==
    { ReceiptLines("2,001.00", ref, "TO: JOHN DOE", "STATUS: Successful"),
      ReceiptLines("2,500.00", ref, "TO: JOHN DOE", "STATUS: Successful"),
      ReceiptLines("N/A",      "",  "TO: JOHN DOE", "STATUS: Successful"),
      ReceiptLines("2,000.00", "",  "TO: JOHN DOE", "STATUS: Successful"),
      ReceiptLines("2,000.00", ref, "TO: JANE ROE", "STATUS: Successful"),
      ReceiptLines("2,000.00", ref, "TO: JOHN DOE", "STATUS: Pending"),
      ReceiptLines("2,500.00", ref, "TO: JANE ROE", "STATUS: Pending"),
      ReceiptLines("2,000.00", "",  "TO: JANE ROE", "STATUS: Pending") }

\* the prefix of the references of the other program
OtherPrefix(prefix) == IF prefix = BotPrefix THEN ApiPrefix ELSE BotPrefix

\* the receipt of a transfer made for the first reference of the other program
ForeignReceipt(prefix) == GoodReceipt(OtherPrefix(prefix) \o RefDigits[1])

UploadTexts(prefix) ==
    {NoneText, EmptyText, ForeignReceipt(prefix)}
        \cup {GoodReceipt(r) : r \in generate_reference(prefix)}
        \cup FlawedReceipts(prefix \o RefDigits[1])

\* the values the bot reads with os.getenv and has no default for
EnvKeys ==
    {"TELEGRAM_BOT_TOKEN", "ADMIN_ID", "GROUP_ID", "RECEIVER_NAME",
     "OPAY_ACCOUNT_NUMBER"}

\* os.getenv of a variable that is not set gives None, which is falsy like ""
Unset == ""

\* a variable is not set, holds a word, or holds a number
EnvValues == {Unset, "admin", "12"}

\* the environment of a deployment that sets every value
Configured == [k \in EnvKeys |-> IF k = "RECEIVER_NAME" THEN RECEIVER_NAME
                                  ELSE "12"]

\* int(s) succeeds
IsNumber(s) == s # "" /\ \A i \in 1..Len(s) : IsDigit(Ch(s, i))

\* lines OCR reads off receipts: amounts, dates, telephone numbers,
\* references and short numbers
ExtractLines ==
    {"2,000.00", "5,000,000.00", "NOV 05 2,500.00", "12 Oct 2025 10:15",
     "2024", "150", "4", "8079304530", "Tel 08012345678",
     "REF: tmzbrand123456"}

\* OCR texts of one and of two lines
ExtractTexts ==
    {<<a>> : a \in ExtractLines} \cup {<<a, b>> : a, b \in ExtractLines}

\* no image has been read
NoOcr == [text |-> NoneText, expected_amount |-> 0]

----------------------------------------------------------------------------
(* The record store: tables are sequences of rows in rowid order            *)

VARIABLES
    now,            \* time.time()
    pending,        \* pending_payments
    verified,       \* verified_payments
    join_requests,  \* join_requests: user_id -> status ("" when no row)
    users,          \* users of the backend: the ids that have a row
    base_amount,    \* admin_settings.base_amount
    dirty,          \* the connection holds changes not yet committed
    cursor,         \* the shared cursor c: its pending result rows
    th,             \* the backend's request threads
    served,         \* the number of requests the backend has accepted
    reply,          \* the answer to the last request handled
    environ,        \* os.environ: the configuration values of the process
    ocr,            \* the text OCR read and the amount the caller expects
    GAME_SESSIONS,  \* GAME_SESSIONS: session_id -> session
    games,          \* games: id -> the archived game
    points          \* users.points: id -> points (0 before the row exists)

vars == <<now, pending, verified, join_requests, users, base_amount,
          dirty, cursor, th, served, reply, environ, ocr,
          GAME_SESSIONS, games, points>>

\* no session in memory, no game archived, no points earned
NoSessions == [s \in {} |-> 0]
NoGames == [g \in {} |-> 0]
NoPoints == [u \in Users |-> 0]

PendingRow(ref, user_id, amount, created_at, user_name) ==
    [ref |-> ref, user_id |-> user_id, amount |-> amount,
     created_at |-> created_at,
     expiry_at |-> created_at + (TIMEOUT_MINUTES * 60),
     user_name |-> user_name]

VerifiedRow(ref, user_id, amount, verified_at, user_name) ==
    [ref |-> ref, user_id |-> user_id, amount |-> amount,
     verified_at |-> verified_at, user_name |-> user_name]

NoRow == [ref |-> "", user_id |-> 0, amount |-> 0, created_at |-> 0,
          expiry_at |-> 0, user_name |-> ""]

NoVerdict == Verdict(FALSE, {}, NoAmount, FALSE)

\* what a handler answers: the outcome, the reference it is about, the
\* failed conditions it names and the amount it reports as detected
Reply(op, user, result, row, verdict) ==
    [op |-> op, user |-> user, result |-> result, ref |-> row.ref,
     reasons |-> verdict.reasons, detected |-> verdict.detected]

\* a table declared without its primary key: every INSERT goes through
PkFreeWithoutKey(table, ref) == TRUE

\* PRIMARY KEY (ref): an INSERT of ref raises IntegrityError unless this holds
PkFree(table, ref) == \A i \in 1..Len(table) : table[i].ref # ref

\* INSERT INTO table VALUES (row), once the key is known to be free
Insert(table, row) == Append(table, row)

\* a sweep that removes the oldest row, whatever its expiry
SweepDropsOldest(table, current_time) ==
    IF table = << >> THEN table ELSE Tail(table)

\* a sweep that also removes the payments that expire at this very moment
SweepAtExpiry(table, current_time) ==
    SelectSeq(table, LAMBDA r : ~(r.expiry_at <= current_time))

\* DELETE FROM pending_payments WHERE expiry_at < ?
cleanup_expired_payments(table, current_time) ==
    SelectSeq(table, LAMBDA r : ~(r.expiry_at < current_time))

\* DELETE FROM pending_payments WHERE ref=?
DeleteRef(table, ref) == SelectSeq(table, LAMBDA r : r.ref # ref)

\* SELECT ... FROM pending_payments WHERE user_id=?   (rowid order)
SelectByUser(table, user_id) == SelectSeq(table, LAMBDA r : r.user_id = user_id)

\* SELECT ... WHERE user_id=? ORDER BY created_at DESC LIMIT 1: the rows the
\* query may return, one of those created last
SelectNewest(table, user_id) ==
    LET rows == SelectByUser(table, user_id)
    IN  {rows[i] : i \in {k \in 1..Len(rows) :
                            \A o \in 1..Len(rows) :
                                rows[o].created_at <= rows[k].created_at}}

\* "now > expiry_at" of the handlers
Expired(row, t) == t > row.expiry_at

Refs(table) == {table[i].ref : i \in 1..Len(table)}

\* LIMIT 10 of /history, LIMIT 50 and LIMIT 10 of the backend's history
HistoryLimit == 10
ApiVerifiedLimit == 50
ApiPendingLimit == 10

\* one payment of a history answer
HistoryEntry(ref, amount, time, status) ==
    [ref |-> ref, amount |-> amount, time |-> time, status |-> status]

\* SELECT ref, amount, verified_at FROM verified_payments WHERE user_id=?
VerifiedEntries(table, user_id) ==
    LET rows == SelectByUser(table, user_id)
    IN  [i \in 1..Len(rows) |->
            HistoryEntry(rows[i].ref, rows[i].amount, rows[i].verified_at,
                         "verified")]

\* SELECT ref, amount, created_at FROM pending_payments WHERE user_id=?
PendingEntries(table, user_id) ==
    LET rows == SelectByUser(table, user_id)
    IN  [i \in 1..Len(rows) |->
            HistoryEntry(rows[i].ref, rows[i].amount, rows[i].created_at,
                         "pending")]

\* ORDER BY ... DESC and sort(reverse=True): latest first, entries of the
\* same time in the order they had
RECURSIVE OrderByTimeDesc(_)
OrderByTimeDesc(entries) ==
    IF entries = << >> THEN << >>
    ELSE LET m == Min({k \in 1..Len(entries) :
                         \A o \in 1..Len(entries) :
                             entries[o].time <= entries[k].time})
         IN  <<entries[m]>> \o
             OrderByTimeDesc(SubSeq(entries, 1, m - 1) \o
                             SubSeq(entries, m + 1, Len(entries)))

\* LIMIT n
Limit(rows, n) == SubSeq(rows, 1, IF Len(rows) < n THEN Len(rows) ELSE n)

\* what /history and GET /api/payments/history answer
HistoryReply(op, user, result, rows) ==
    [op |-> op, user |-> user, result |-> result,
     ref |-> "", reasons |-> {}, detected |-> NoAmount, rows |-> rows]

\* "No payment history found." when the query returns no row
HistoryResult(rows) == IF rows = << >> THEN "none" ELSE "history"

----------------------------------------------------------------------------
(* The Telegram bot: every handler runs to completion before the next       *)

\* the prices the administrator sets in the runs observed
Prices == {50, 2500, 100000}

ExpectedAmounts == {BASE_AMOUNT} \cup ApiAmounts \cup Prices

\* verify_all_conditions on the uploads, amounts and references of the model
BotVerdicts ==
    [t \in UploadTexts(BotPrefix) |->
        [a \in ExpectedAmounts |->
            [r \in generate_reference(BotPrefix) |->
                verify_all_conditions(t, a, r)]]]

Init ==
    /\ now = 0
    /\ pending = << >>
    /\ verified = << >>
    /\ join_requests = [u \in Users |-> ""]
    /\ users = {}
    /\ base_amount = BASE_AMOUNT
    /\ dirty = FALSE
    /\ cursor = [cols |-> 0, rows |-> << >>]
    /\ th = [t \in {1, 2} |-> [pc |-> "idle", user |-> 0, ref |-> "",
                               amount |-> 0, row |-> NoRow]]
    /\ served = 0
    /\ reply = Reply("", 0, "", NoRow, NoVerdict)
    /\ environ = Configured
    /\ ocr = NoOcr
    /\ GAME_SESSIONS = NoSessions
    /\ games = NoGames
    /\ points = NoPoints

\* time passes
Tick ==
    /\ now + TickLen <= MaxTicks * TickLen
    /\ now' = now + TickLen
    /\ UNCHANGED <<pending, verified, join_requests, users, base_amount,
                   dirty, cursor, th, served, reply>>
    /\ UNCHANGED <<environ, ocr, GAME_SESSIONS, games, points>>

\* /pay
pay(u) ==
    /\ \E ref \in generate_reference(BotPrefix) :
        LET swept    == cleanup_expired_payments(pending, now)
            existing == SelectByUser(swept, u)
        IN  IF existing # << >>
            THEN /\ pending' = swept
                 /\ reply' = Reply("pay", u, "conflict", existing[1], NoVerdict)
            ELSE IF ~PkFree(swept, ref)
            THEN /\ pending' = swept
                 /\ reply' = Reply("pay", u, "error", NoRow, NoVerdict)
            ELSE LET row == PendingRow(ref, u, base_amount, now, UserName(u))
                 IN  /\ pending' = Insert(swept, row)
                     /\ reply' = Reply("pay", u, "created", row, NoVerdict)
    /\ dirty' = FALSE
    /\ UNCHANGED <<now, verified, join_requests, users, base_amount,
                   cursor, th, served>>
    /\ UNCHANGED <<environ, ocr, GAME_SESSIONS, games, points>>

\* the "create_payment" button of handle_button_click
button_create_payment(u) ==
    /\ \E ref \in generate_reference(BotPrefix) :
        IF ~PkFree(pending, ref)
        THEN /\ reply' = Reply("create_payment", u, "error", NoRow, NoVerdict)
             /\ UNCHANGED <<pending, dirty>>
        ELSE LET row == PendingRow(ref, u, base_amount, now, UserName(u))
             IN  /\ pending' = Insert(pending, row)
                 /\ dirty' = FALSE
                 /\ reply' = Reply("create_payment", u, "created", row,
                                   NoVerdict)
    /\ UNCHANGED <<now, verified, join_requests, users, base_amount,
                   cursor, th, served>>
    /\ UNCHANGED <<environ, ocr, GAME_SESSIONS, games, points>>

\* the status lookup shared by /check and the "check_payment" button
StatusOf(op, u, table) ==
    IF SelectByUser(table, u) = << >>
    THEN /\ pending' = table
         /\ reply' = Reply(op, u, "none", NoRow, NoVerdict)
    ELSE \E row \in SelectNewest(table, u) :
            IF Expired(row, now)
            THEN /\ pending' = DeleteRef(table, row.ref)
                 /\ reply' = Reply(op, u, "expired", row, NoVerdict)
            ELSE /\ pending' = table
                 /\ reply' = Reply(op, u, "pending", row, NoVerdict)

\* the "check_payment" button of handle_button_click
button_check_payment(u) ==
    /\ StatusOf("check_payment", u, pending)
    /\ dirty' = IF pending' # pending THEN FALSE ELSE dirty
    /\ UNCHANGED <<now, verified, join_requests, users, base_amount,
                   cursor, th, served>>
    /\ UNCHANGED <<environ, ocr, GAME_SESSIONS, games, points>>

\* /check
check(u) ==
    /\ StatusOf("check", u, cleanup_expired_payments(pending, now))
    /\ dirty' = FALSE
    /\ UNCHANGED <<now, verified, join_requests, users, base_amount,
                   cursor, th, served>>
    /\ UNCHANGED <<environ, ocr, GAME_SESSIONS, games, points>>

\* handle_receipt from the OCR result on (lines 1132-1170): v is the result
\* of verify_all_conditions
receipt_checked(u, row, text, d, v) ==
    /\ now' = now + d
    /\ IF IsFalsyText(text)
       THEN /\ reply' = Reply("receipt", u, "unreadable", row, NoVerdict)
            /\ UNCHANGED <<pending, verified, join_requests, dirty>>
       ELSE IF v.raised
       THEN /\ reply' = Reply("receipt", u, "error", row, v)
            /\ UNCHANGED <<pending, verified, join_requests, dirty>>
       ELSE IF ~v.accepted
       THEN /\ reply' = Reply("receipt", u, "rejected", row, v)
            /\ UNCHANGED <<pending, verified, join_requests, dirty>>
       ELSE IF ~PkFree(verified, row.ref)
       THEN /\ pending' = DeleteRef(pending, row.ref)
            /\ dirty' = TRUE
            /\ reply' = Reply("receipt", u, "error", row, v)
            /\ UNCHANGED <<verified, join_requests>>
       ELSE /\ pending' = DeleteRef(pending, row.ref)
            /\ verified' = Insert(verified,
                                  VerifiedRow(row.ref, u, row.amount, now + d,
                                              UserName(u)))
            /\ dirty' = FALSE
            /\ join_requests' = [join_requests EXCEPT ![u] = "pre_approved"]
            /\ reply' = Reply("receipt", u, "verified", row, v)

\* handle_receipt from the row found on (lines 1109-1115)
receipt_found(u, row, text, d) ==
    IF Expired(row, now)
    THEN /\ pending' = DeleteRef(pending, row.ref)
         /\ dirty' = FALSE
         /\ reply' = Reply("receipt", u, "expired", row, NoVerdict)
         /\ UNCHANGED <<now, verified, join_requests>>
    ELSE receipt_checked(u, row, text, d,
                         BotVerdicts[text][row.amount][row.ref])

\* row = c.fetchone() of handle_receipt: the first row of the user
receipt_rows(u, rows, text, d) ==
    IF rows = << >>
    THEN /\ reply' = Reply("receipt", u, "none", NoRow, NoVerdict)
         /\ UNCHANGED <<now, pending, verified, join_requests, dirty>>
    ELSE receipt_found(u, rows[1], text, d)

\* handle_receipt with its inputs: the OCR text of the photo and the time the
\* download and the OCR take
handle_receipt(u, text, d) ==
    /\ now + d <= MaxTicks * TickLen
    /\ receipt_rows(u, SelectByUser(pending, u), text, d)
    /\ UNCHANGED <<users, base_amount, cursor, th, served>>
    /\ UNCHANGED <<environ, ocr, GAME_SESSIONS, games, points>>

\* every join request is taken for one of a paying member
EligibleAlways(has_verified_payment, is_pre_approved) == TRUE

\* "if has_verified_payment or is_pre_approved" of handle_join_request
Eligible(has_verified_payment, is_pre_approved) ==
    has_verified_payment \/ is_pre_approved

\* the status is written whether or not the platform confirmed the approval
StatusCommittedFirst(status, approved) == "approved"

\* the status of the join record after approve_chat_join_request: 'approved'
\* is written once the call has returned, nothing when it raised
StatusAfterApproval(status, approved) ==
    IF approved THEN "approved" ELSE status

\* SELECT COUNT(*) FROM verified_payments WHERE user_id=?  > 0
HasVerifiedPayment(u) == \E i \in 1..Len(verified) : verified[i].user_id = u

\* handle_join_request: approved tells whether the chat platform confirms
\* approve_chat_join_request
handle_join_request(u, approved) ==
    /\ IF Eligible(HasVerifiedPayment(u), join_requests[u] = "pre_approved")
       THEN /\ join_requests' =
                   [join_requests EXCEPT
                       ![u] = StatusAfterApproval(join_requests[u], approved)]
            /\ dirty' = IF approved THEN FALSE ELSE dirty
            /\ reply' = Reply("join", u,
                              IF approved THEN "approved" ELSE "error",
                              NoRow, NoVerdict)
       ELSE /\ join_requests' = [join_requests EXCEPT ![u] = "pending"]
            /\ dirty' = FALSE
            /\ reply' = Reply("join", u, "pending", NoRow, NoVerdict)
    /\ UNCHANGED <<now, pending, verified, users, base_amount, cursor, th,
                   served>>
    /\ UNCHANGED <<environ, ocr, GAME_SESSIONS, games, points>>

----------------------------------------------------------------------------
(* The HTTP backend: requests are served by threads that share the          *)
(* connection and its one cursor; a thread can be preempted between two     *)
(* calls of the database                                                    *)

Threads == DOMAIN th

ApiVerdicts ==
    [t \in UploadTexts(ApiPrefix) \ {NoneText} |->
        [a \in ExpectedAmounts |->
            [r \in generate_reference(ApiPrefix) |->
                api_verify(t, a, r)]]]

Idle == [pc |-> "idle", user |-> 0, ref |-> "", amount |-> 0, row |-> NoRow]

\* c.execute of a SELECT: the cursor holds the rows found, cols columns each
Executed(cols, rows) == [cols |-> cols, rows |-> rows]
\* c.execute of an INSERT or a DELETE: the cursor holds no row
NoRows == Executed(0, << >>)
\* c.fetchone(): the cursor moves past the row it returns
Fetched == [cursor EXCEPT !.rows = IF cursor.rows = << >> THEN << >>
                                   ELSE Tail(cursor.rows)]

\* create_payment up to c.execute("SELECT ref, amount ...")
create_payment_select(t, u, amount) ==
    /\ th[t].pc = "idle" /\ served < MaxRequests
    /\ served' = served + 1
    /\ LET swept == cleanup_expired_payments(pending, now)
       IN  /\ pending' = swept
           /\ cursor' = Executed(2, SelectByUser(swept, u))
    /\ dirty' = FALSE
    /\ th' = [th EXCEPT ![t] = [Idle EXCEPT !.pc = "create_fetch",
                                            !.user = u, !.amount = amount]]
    /\ UNCHANGED <<now, verified, join_requests, users, base_amount,
                   reply>>
    /\ UNCHANGED <<environ, ocr, GAME_SESSIONS, games, points>>

\* existing = c.fetchone() and the answer 409
create_payment_fetch(t) ==
    /\ th[t].pc = "create_fetch"
    /\ cursor' = Fetched
    /\ IF cursor.rows = << >>
       THEN /\ th' = [th EXCEPT ![t].pc = "create_insert"]
            /\ UNCHANGED reply
       ELSE /\ th' = [th EXCEPT ![t] = Idle]
            /\ reply' = IF cursor.cols = 2
                        THEN Reply("create", th[t].user, "conflict",
                                   cursor.rows[1], NoVerdict)
                        ELSE Reply("create", th[t].user, "error", NoRow,
                                   NoVerdict)
    /\ UNCHANGED <<now, pending, verified, join_requests, users,
                   base_amount, dirty, served>>
    /\ UNCHANGED <<environ, ocr, GAME_SESSIONS, games, points>>

\* generate_reference(), the INSERT and the commit
create_payment_insert(t) ==
    /\ th[t].pc = "create_insert"
    /\ \E ref \in generate_reference(ApiPrefix) :
        IF ~PkFree(pending, ref)
        THEN /\ reply' = Reply("create", th[t].user, "error", NoRow, NoVerdict)
             /\ UNCHANGED <<pending, dirty>>
        ELSE LET row == PendingRow(ref, th[t].user, th[t].amount, now,
                                   UserName(th[t].user))
             IN  /\ pending' = Insert(pending, row)
                 /\ dirty' = FALSE
                 /\ reply' = Reply("create", th[t].user, "created", row,
                                   NoVerdict)
    /\ cursor' = NoRows
    /\ th' = [th EXCEPT ![t] = Idle]
    /\ UNCHANGED <<now, verified, join_requests, users, base_amount, served>>
    /\ UNCHANGED <<environ, ocr, GAME_SESSIONS, games, points>>

\* verify_receipt up to c.execute("SELECT ref, amount, expiry_at, user_name")
verify_receipt_select(t, u, reference) ==
    /\ th[t].pc = "idle" /\ served < MaxRequests
    /\ served' = served + 1
    /\ LET swept == cleanup_expired_payments(pending, now)
       IN  /\ pending' = swept
           /\ cursor' = Executed(4, SelectSeq(swept, LAMBDA r :
                                    r.user_id = u /\ r.ref = reference))
    /\ dirty' = FALSE
    /\ th' = [th EXCEPT ![t] = [Idle EXCEPT !.pc = "verify_fetch",
                                            !.user = u, !.ref = reference]]
    /\ UNCHANGED <<now, verified, join_requests, users, base_amount,
                   reply>>
    /\ UNCHANGED <<environ, ocr, GAME_SESSIONS, games, points>>

\* row = c.fetchone(), the answer 404 and the expiry check
verify_receipt_fetch(t) ==
    /\ th[t].pc = "verify_fetch"
    /\ LET row == cursor.rows[1]
       IN  IF cursor.rows = << >>
           THEN /\ reply' = Reply("verify", th[t].user, "none", NoRow,
                                  NoVerdict)
                /\ th' = [th EXCEPT ![t] = Idle]
                /\ cursor' = Fetched
                /\ UNCHANGED <<pending, dirty>>
           ELSE IF cursor.cols # 4
           THEN /\ reply' = Reply("verify", th[t].user, "error", NoRow,
                                  NoVerdict)
                /\ th' = [th EXCEPT ![t] = Idle]
                /\ cursor' = Fetched
                /\ UNCHANGED <<pending, dirty>>
           ELSE IF Expired(row, now)
           THEN /\ pending' = DeleteRef(pending, row.ref)
                /\ dirty' = FALSE
                /\ cursor' = NoRows
                /\ reply' = Reply("verify", th[t].user, "expired", row,
                                  NoVerdict)
                /\ th' = [th EXCEPT ![t] = Idle]
           ELSE /\ th' = [th EXCEPT ![t].pc = "verify_ocr", ![t].row = row]
                /\ cursor' = Fetched
                /\ UNCHANGED <<pending, dirty, reply>>
    /\ UNCHANGED <<now, verified, join_requests, users, base_amount, served>>
    /\ UNCHANGED <<environ, ocr, GAME_SESSIONS, games, points>>

\* verify_receipt from the checks on (lines 342-348): v is their result
verify_receipt_checked(t, v) ==
    IF ~v.accepted
    THEN /\ reply' = Reply("verify", th[t].user, "rejected", th[t].row, v)
         /\ th' = [th EXCEPT ![t] = Idle]
    ELSE /\ th' = [th EXCEPT ![t].pc = "verify_move"]
         /\ UNCHANGED reply

\* the OCR of the image and the four checks
verify_receipt_ocr(t, text) ==
    /\ th[t].pc = "verify_ocr"
    /\ IF text = NoneText
       THEN /\ reply' = Reply("verify", th[t].user, "unreadable", th[t].row,
                              NoVerdict)
            /\ th' = [th EXCEPT ![t] = Idle]
       ELSE verify_receipt_checked(
                t, ApiVerdicts[text][th[t].row.amount][th[t].row.ref])
    /\ UNCHANGED <<now, pending, verified, join_requests, users,
                   base_amount, dirty, cursor, served>>
    /\ UNCHANGED <<environ, ocr, GAME_SESSIONS, games, points>>

\* the DELETE, the INSERT into verified_payments and the SELECT on users
verify_receipt_move(t) ==
    /\ th[t].pc = "verify_move"
    /\ LET row == th[t].row
       IN  /\ pending' = DeleteRef(pending, row.ref)
           /\ dirty' = TRUE
           /\ IF ~PkFree(verified, row.ref)
              THEN /\ cursor' = NoRows
                   /\ reply' = Reply("verify", th[t].user, "error", row,
                                     NoVerdict)
                   /\ th' = [th EXCEPT ![t] = Idle]
                   /\ UNCHANGED verified
              ELSE /\ verified' = Insert(verified,
                                         VerifiedRow(row.ref, th[t].user,
                                                     row.amount, now,
                                                     row.user_name))
                   /\ cursor' = Executed(1, IF th[t].user \in users
                                            THEN <<NoRow>> ELSE << >>)
                   /\ th' = [th EXCEPT ![t].pc = "verify_user"]
                   /\ UNCHANGED reply
    /\ UNCHANGED <<now, join_requests, users, base_amount, served>>
    /\ UNCHANGED <<environ, ocr, GAME_SESSIONS, games, points>>

\* c.fetchone() on users, the INSERT into users, the commit and the answer
verify_receipt_commit(t) ==
    /\ th[t].pc = "verify_user"
    /\ IF cursor.rows # << >>
       THEN /\ cursor' = Fetched
            /\ dirty' = FALSE
            /\ reply' = Reply("verify", th[t].user, "verified", th[t].row,
                              NoVerdict)
            /\ UNCHANGED users
       ELSE IF th[t].user \in users
       THEN /\ cursor' = NoRows
            /\ reply' = Reply("verify", th[t].user, "error", th[t].row,
                              NoVerdict)
            /\ UNCHANGED <<users, dirty>>
       ELSE /\ cursor' = NoRows
            /\ users' = users \cup {th[t].user}
            /\ dirty' = FALSE
            /\ reply' = Reply("verify", th[t].user, "verified", th[t].row,
                              NoVerdict)
    /\ th' = [th EXCEPT ![t] = Idle]
    /\ UNCHANGED <<now, pending, verified, join_requests, base_amount,
                   served>>
    /\ UNCHANGED <<environ, ocr, GAME_SESSIONS, games, points>>

----------------------------------------------------------------------------

BotNext ==
    \/ Tick
    \/ \E u \in Users : pay(u)
    \/ \E u \in Users : button_create_payment(u)
    \/ \E u \in Users : button_check_payment(u)
    \/ \E u \in Users : check(u)
    \/ \E u \in Users, text \in UploadTexts(BotPrefix), d \in {0, TickLen} :
          handle_receipt(u, text, d)

\* the handlers of the bot that write verified_payments or join_requests,
\* and /pay, which creates what they work on
JoinNext ==
    \/ Tick
    \/ \E u \in Users : pay(u)
    \/ \E u \in Users, text \in UploadTexts(BotPrefix), d \in {0, TickLen} :
          handle_receipt(u, text, d)
    \/ \E u \in Users, approved \in BOOLEAN : handle_join_request(u, approved)

ApiNext ==
    \/ Tick
    \/ \E t \in Threads, u \in Users, amount \in ApiAmounts :
          create_payment_select(t, u, amount)
    \/ \E t \in Threads : create_payment_fetch(t)
    \/ \E t \in Threads : create_payment_insert(t)
    \/ \E t \in Threads, u \in Users,
          reference \in generate_reference(ApiPrefix) :
          verify_receipt_select(t, u, reference)
    \/ \E t \in Threads : verify_receipt_fetch(t)
    \/ \E t \in Threads, text \in UploadTexts(ApiPrefix) :
          verify_receipt_ocr(t, text)
    \/ \E t \in Threads : verify_receipt_move(t)
    \/ \E t \in Threads : verify_receipt_commit(t)

\* The backend opens the database file it finds (CREATE TABLE IF NOT EXISTS):
\* a new one, or one an earlier run left with a verified payment of the
\* first user in it.
EarlierVerified ==
    VerifiedRow(ApiPrefix \o RefDigits[1], 1, BASE_AMOUNT, 0, UserName(1))

InitApi ==
    /\ now = 0
    /\ pending = << >>
    /\ \/ verified = << >> /\ users = {}
       \/ verified = <<EarlierVerified>> /\ users = {1}
    /\ join_requests = [u \in Users |-> ""]
    /\ base_amount = BASE_AMOUNT
    /\ dirty = FALSE
    /\ cursor = [cols |-> 0, rows |-> << >>]
    /\ th = [t \in {1, 2} |-> [pc |-> "idle", user |-> 0, ref |-> "",
                               amount |-> 0, row |-> NoRow]]
    /\ served = 0
    /\ reply = Reply("", 0, "", NoRow, NoVerdict)
    /\ environ = Configured
    /\ ocr = NoOcr
    /\ GAME_SESSIONS = NoSessions
    /\ games = NoGames
    /\ points = NoPoints

\* the bot and the backend, each on its own database
SpecBot == Init /\ [][BotNext]_vars
SpecApi == InitApi /\ [][ApiNext]_vars
\* the bot's verification and group admission
SpecJoin == Init /\ [][JoinNext]_vars

\* ADMIN_ID of the environment, and the ids commands come from
ADMIN_ID == 12
Issuers == Users \cup {ADMIN_ID}

\* a check that lets every issuer through
NotAdminNever(user_id) == FALSE

\* user_id != ADMIN_ID
NotAdmin(user_id) == user_id # ADMIN_ID

\* context.args[0] of /setprice and of /approve, /decline ("" when absent)
PriceArgs == {"", "abc", "49", "50", "2500", "100000", "100001"}
TargetArgs == {"", "abc", "1", "2"}

\* a price change that takes any number
PriceAcceptedAlways(new_amount) == TRUE

\* not (new_amount < 50 or new_amount > 100000)
PriceAccepted(new_amount) == ~(new_amount < 50 \/ new_amount > 100000)

\* /setprice
setprice(i, arg) ==
    /\ IF NotAdmin(i)
       THEN /\ reply' = Reply("setprice", i, "admin_only", NoRow, NoVerdict)
            /\ UNCHANGED <<base_amount, dirty>>
       ELSE IF arg = ""
       THEN /\ reply' = Reply("setprice", i, "usage", NoRow, NoVerdict)
            /\ UNCHANGED <<base_amount, dirty>>
       ELSE IF ~IsNumber(arg)
       THEN /\ reply' = Reply("setprice", i, "invalid", NoRow, NoVerdict)
            /\ UNCHANGED <<base_amount, dirty>>
       ELSE IF ~PriceAccepted(DigitsValue(arg, 1, 0))
       THEN /\ reply' = Reply("setprice", i, "out_of_range", NoRow, NoVerdict)
            /\ UNCHANGED <<base_amount, dirty>>
       ELSE /\ base_amount' = DigitsValue(arg, 1, 0)
            /\ dirty' = FALSE
            /\ reply' = Reply("setprice", i, "updated", NoRow, NoVerdict)
    /\ UNCHANGED <<now, pending, verified, join_requests, users, cursor, th,
                   served, environ, ocr,
                   GAME_SESSIONS, games, points>>

\* /pricesettings, /stats and /pendingrequests read and answer
AdminReads(op, i, shown) ==
    /\ reply' = Reply(op, i, IF NotAdmin(i) THEN "admin_only" ELSE shown,
                      NoRow, NoVerdict)
    /\ UNCHANGED <<now, pending, verified, join_requests, users, base_amount,
                   dirty, cursor, th, served, environ, ocr,
                   GAME_SESSIONS, games, points>>

pricesettings(i) == AdminReads("pricesettings", i, "shown")

stats(i) == AdminReads("stats", i, "shown")

pending_requests(i) ==
    AdminReads("pendingrequests", i,
               IF \E u \in Users : join_requests[u] = "pending"
               THEN "shown" ELSE "none")

\* a status written whether or not the chat platform confirmed the call
StatusWrittenAnyway(status, done, ok) == done

\* the UPDATE of /approve and /decline stands after the call to the chat
\* platform in the same try block
StatusAfterCall(status, done, ok) == IF ok THEN done ELSE status

\* /approve and /decline: ok tells whether the chat platform confirms the
\* approve_chat_join_request or decline_chat_join_request call
AdminDecides(op, done, i, arg, ok) ==
    /\ IF NotAdmin(i)
       THEN /\ reply' = Reply(op, i, "admin_only", NoRow, NoVerdict)
            /\ UNCHANGED <<join_requests, dirty>>
       ELSE IF arg = ""
       THEN /\ reply' = Reply(op, i, "usage", NoRow, NoVerdict)
            /\ UNCHANGED <<join_requests, dirty>>
       ELSE IF ~IsNumber(arg)
       THEN /\ reply' = Reply(op, i, "invalid", NoRow, NoVerdict)
            /\ UNCHANGED <<join_requests, dirty>>
       ELSE LET target == DigitsValue(arg, 1, 0)
            IN  IF ~(target \in Users /\ join_requests[target] = "pending")
                THEN /\ reply' = Reply(op, i, "none", NoRow, NoVerdict)
                     /\ UNCHANGED <<join_requests, dirty>>
                ELSE /\ join_requests' =
                            [join_requests EXCEPT
                                ![target] = StatusAfterCall(@, done, ok)]
                     /\ dirty' = IF ok THEN FALSE ELSE dirty
                     /\ reply' = Reply(op, target,
                                       IF ok THEN done ELSE "error",
                                       NoRow, NoVerdict)
    /\ UNCHANGED <<now, pending, verified, users, base_amount, cursor, th,
                   served, environ, ocr,
                   GAME_SESSIONS, games, points>>

approve_request(i, arg, ok) == AdminDecides("approve", "approved", i, arg, ok)

decline_request(i, arg, ok) == AdminDecides("decline", "declined", i, arg, ok)

\* receipts uploaded while the price changes
PriceReceipts ==
    {GoodReceipt(r) : r \in generate_reference(BotPrefix)}
        \cup {ReceiptLines("2,500.00", BotPrefix \o RefDigits[1],
                           "TO: JOHN DOE", "STATUS: Successful")}

\* one requester pays while the administrator changes the price
PriceNext ==
    \/ pay(1)
    \/ \E text \in PriceReceipts : handle_receipt(1, text, 0)
    \/ \E i \in {1, ADMIN_ID}, arg \in PriceArgs : setprice(i, arg)

SpecPrice == Init /\ [][PriceNext]_vars

\* the commands of the administrator next to the handlers they act on
AdminNext ==
    \/ \E u \in Users : pay(u)
    \/ \E u \in Users : handle_receipt(u, GoodReceipt(BotPrefix \o RefDigits[1]), 0)
    \/ \E u \in Users, approved \in BOOLEAN : handle_join_request(u, approved)
    \/ \E i \in Issuers, arg \in {"", "abc", "49", "2500"} : setprice(i, arg)
    \/ \E i \in Issuers : pricesettings(i)
    \/ \E i \in Issuers : stats(i)
    \/ \E i \in Issuers : pending_requests(i)
    \/ \E i \in Issuers, arg \in TargetArgs, ok \in BOOLEAN :
          approve_request(i, arg, ok)
    \/ \E i \in Issuers, arg \in TargetArgs, ok \in BOOLEAN :
          decline_request(i, arg, ok)

SpecAdmin == Init /\ [][AdminNext]_vars

\* everything but the tables, the environment and the OCR text, as the
\* process finds it when it starts
AtStart ==
    /\ now = 0
    /\ join_requests = [u \in Users |-> ""]
    /\ users = {}
    /\ base_amount = BASE_AMOUNT
    /\ dirty = FALSE
    /\ cursor = [cols |-> 0, rows |-> << >>]
    /\ th = [t \in {1, 2} |-> [pc |-> "idle", user |-> 0, ref |-> "",
                               amount |-> 0, row |-> NoRow]]
    /\ served = 0
    /\ reply = Reply("", 0, "", NoRow, NoVerdict)
    /\ GAME_SESSIONS = NoSessions
    /\ games = NoGames
    /\ points = NoPoints

\* the amount extractors, each applied to the text OCR has read
Detected(amount) == Verdict(FALSE, {}, amount, FALSE)

bot_extract_amount ==
    /\ reply.op = ""
    /\ reply' = Reply("extract_amount_from_text", 0, "bot", NoRow,
                      Detected(extract_amount_from_text(
                                   ocr.text, ocr.expected_amount)))
    /\ UNCHANGED <<now, pending, verified, join_requests, users, base_amount,
                   dirty, cursor, th, served, environ, ocr,
                   GAME_SESSIONS, games, points>>

api_extract_amount ==
    /\ reply.op = ""
    /\ reply' = Reply("extract_amount_from_text", 0, "api", NoRow,
                      Detected(api_extract_amount_from_text(
                                   ocr.text, ocr.expected_amount)))
    /\ UNCHANGED <<now, pending, verified, join_requests, users, base_amount,
                   dirty, cursor, th, served, environ, ocr,
                   GAME_SESSIONS, games, points>>

ExtractNext == bot_extract_amount \/ api_extract_amount

InitExtract ==
    /\ AtStart
    /\ pending = << >>
    /\ verified = << >>
    /\ environ = Configured
    /\ ocr \in [text : ExtractTexts, expected_amount : ExpectedAmounts]

\* the amount extractors on the texts OCR may read
SpecExtract == InitExtract /\ [][ExtractNext]_vars

\* the start of the bot: the checks of the configuration in the order the
\* module runs them, then main()
Startup(env) ==
    IF env["ADMIN_ID"] = Unset THEN "exit"
    ELSE IF ~IsNumber(env["ADMIN_ID"]) THEN "exit"
    ELSE IF env["TELEGRAM_BOT_TOKEN"] = Unset THEN "exit"
    ELSE IF env["GROUP_ID"] = Unset THEN "exit"
    ELSE "running"

main ==
    /\ reply.op = ""
    /\ reply' = Reply("main", 0, Startup(environ), NoRow, NoVerdict)
    /\ UNCHANGED <<now, pending, verified, join_requests, users, base_amount,
                   dirty, cursor, th, served, environ, ocr,
                   GAME_SESSIONS, games, points>>

InitMain ==
    /\ AtStart
    /\ pending = << >>
    /\ verified = << >>
    /\ environ \in [EnvKeys -> EnvValues]
    /\ ocr = NoOcr

\* the bot started in every environment
SpecMain == InitMain /\ [][main]_vars

\* the database file of an earlier run: a ledger of n verified payments,
\* every k-th of the second user, one a minute up to the start
MaxLedger == 12

LedgerRef(prefix, i) ==
    prefix \o "1000" \o Ch(DigitAlpha, (i \div 10) + 1)
           \o Ch(DigitAlpha, (i % 10) + 1)

Ledger(prefix, n, k) ==
    [i \in 1..n |->
        LET u == IF i % k = 0 THEN 2 ELSE 1
        IN  VerifiedRow(LedgerRef(prefix, i), u, BASE_AMOUNT,
                        (i - n - 1) * 60, UserName(u))]

\* the tables hold references of this program only
Prefixed(prefix) ==
    \A r \in Refs(pending) \cup Refs(verified) :
        SubSeq(r, 1, Len(prefix)) = prefix

\* /history
history(u) ==
    /\ reply.op = ""
    /\ Prefixed(BotPrefix)
    /\ LET rows == Limit(OrderByTimeDesc(VerifiedEntries(verified, u)),
                         HistoryLimit)
       IN  reply' = HistoryReply("history", u, HistoryResult(rows), rows)
    /\ UNCHANGED <<now, pending, verified, join_requests, users, base_amount,
                   dirty, cursor, th, served, environ, ocr,
                   GAME_SESSIONS, games, points>>

\* GET /api/payments/history/<user_id>
payment_history(u) ==
    /\ reply.op = ""
    /\ Prefixed(ApiPrefix)
    /\ reply' = HistoryReply("payment_history", u, "success",
                     OrderByTimeDesc(
                         Limit(OrderByTimeDesc(VerifiedEntries(verified, u)),
                               ApiVerifiedLimit)
                         \o Limit(OrderByTimeDesc(PendingEntries(pending, u)),
                                  ApiPendingLimit)))
    /\ UNCHANGED <<now, pending, verified, join_requests, users, base_amount,
                   dirty, cursor, th, served, environ, ocr,
                   GAME_SESSIONS, games, points>>

HistoryNext ==
    \/ \E u \in Users : history(u)
    \/ \E u \in Users : payment_history(u)

InitHistory ==
    /\ AtStart
    /\ \E prefix \in {BotPrefix, ApiPrefix} :
        /\ \E n \in 0..MaxLedger, k \in 1..3 : verified = Ledger(prefix, n, k)
        /\ \/ pending = << >>
           \/ \E u \in Users :
                 pending = <<PendingRow(prefix \o RefDigits[1], u, BASE_AMOUNT,
                                        0, UserName(u))>>
    /\ environ = Configured
    /\ ocr = NoOcr

\* the history of the payments an earlier run left
SpecHistory == InitHistory /\ [][HistoryNext]_vars

-----------------------------------------------------------------------------
(* The spelling game of the backend                                        *)

\* WORD_TIME_LIMIT of game_answer, in seconds
WORD_TIME_LIMIT == 15

\* words_count of game_start
words_count == 5

\* the attempts a word starts with
FirstAttempts == 3

\* the multiplier a session starts with
FirstMultiplier == 3

\* random.sample(WORD_LIST, 5): one of the samples it may return
Samples == {<<"rhythm", "receipt", "cousin", "business", "subtle">>}

\* f"game{random.randint(100000, 999999)}": two of the ids it may return
SessionIds == {"game100000", "game100001"}

\* the answers a client sends
Answers == {"rhythm", " Receipt", "COUSIN ", "business", "subtle", "rythm"}

\* now - session["last_word_ts"] when the answer arrives, in seconds
Elapsed == {1, WORD_TIME_LIMIT + 1}

\* the largest count of attempts a session is followed below zero
MaxOverdraw == 1

\* the number of games the backend is followed through
MaxGames == 2

Session(user_id, words) ==
    [user_id |-> user_id, words |-> words, index |-> 0, correct |-> 0,
     multiplier |-> FirstMultiplier,
     attempts_left_for_current_word |-> FirstAttempts]

GameRow(session, points_earned) ==
    [user_id |-> session.user_id, words_count |-> Len(session.words),
     correct |-> session.correct, final_multiplier |-> session.multiplier,
     points_earned |-> points_earned]

\* the JSON a game endpoint returns: the status or result, the session it
\* is about and the points the answer earned
GameReply(op, session_id, result, points_earned) ==
    [op |-> op, user |-> 0, result |-> result, ref |-> session_id,
     reasons |-> {}, detected |-> NoAmount, points_earned |-> points_earned]

\* GAME_SESSIONS[session_id] = session
Put(sessions, session_id, session) ==
    [s \in DOMAIN sessions \cup {session_id} |->
        IF s = session_id THEN session ELSE sessions[s]]

\* GAME_SESSIONS.pop(session_id, None)
Pop(sessions, session_id) ==
    [s \in DOMAIN sessions \ {session_id} |-> sessions[s]]

\* POST /api/game/start; user_id 0 stands for a body without user_id
game_start(user_id, words, session_id) ==
    /\ served < MaxGames
    /\ served' = served + 1
    /\ IF user_id = 0
       THEN /\ reply' = GameReply("game_start", "", "error", 0)
            /\ UNCHANGED <<users, dirty, GAME_SESSIONS>>
       ELSE /\ users' = users \cup {user_id}
            /\ dirty' = IF user_id \in users THEN dirty ELSE FALSE
            /\ GAME_SESSIONS' =
                   Put(GAME_SESSIONS, session_id, Session(user_id, words))
            /\ reply' = GameReply("game_start", session_id, "ok", 0)
    /\ UNCHANGED <<now, pending, verified, join_requests, base_amount, cursor,
                   th, environ, ocr, games, points>>

\* max(1, session["multiplier"] - 1)
Reduced(multiplier) == IF multiplier - 1 > 1 THEN multiplier - 1 ELSE 1

\* 10 * score * final_mult
PointsEarned(session) == 10 * session.correct * session.multiplier

\* the end of a game: the archive row, the points, the session removed;
\* the INSERT raises IntegrityError when the id is archived already, and
\* the handler answers 500 with the session as it has become
EndGame(session_id, session) ==
    IF session_id \in DOMAIN games
    THEN /\ GAME_SESSIONS' = Put(GAME_SESSIONS, session_id, session)
         /\ reply' = GameReply("game_answer", session_id, "error", 0)
         /\ UNCHANGED <<games, points, dirty>>
    ELSE /\ games' = Put(games, session_id,
                         GameRow(session, PointsEarned(session)))
         /\ points' = [points EXCEPT
                          ![session.user_id] = @ + PointsEarned(session)]
         /\ dirty' = FALSE
         /\ GAME_SESSIONS' = Pop(GAME_SESSIONS, session_id)
         /\ reply' = GameReply("game_answer", session_id, "finished",
                               PointsEarned(session))

\* the session after index += 1 with the attempts reset: the next word, or
\* the end of the game
NextWord(session_id, session, result) ==
    LET moved == [session EXCEPT !.index = @ + 1,
                                 !.attempts_left_for_current_word =
                                     FirstAttempts]
    IN  IF moved.index >= Len(moved.words)
        THEN EndGame(session_id, moved)
        ELSE /\ GAME_SESSIONS' = Put(GAME_SESSIONS, session_id, moved)
             /\ reply' = GameReply("game_answer", session_id, result, 0)
             /\ UNCHANGED <<games, points, dirty>>

\* the answer judged against the current word of the session
Judge(session_id, session, answer, timed_out) ==
    IF session.index >= Len(session.words)
    THEN \* IndexError: the handler answers 500
         /\ GAME_SESSIONS' = Put(GAME_SESSIONS, session_id, session)
         /\ reply' = GameReply("game_answer", session_id, "error", 0)
         /\ UNCHANGED <<games, points, dirty>>
    ELSE IF ~timed_out
            /\ Lower(Strip(answer)) = Lower(session.words[session.index + 1])
    THEN NextWord(session_id, [session EXCEPT !.correct = @ + 1], "correct")
    ELSE LET missed ==
                 [session EXCEPT
                     !.attempts_left_for_current_word = @ - 1,
                     !.multiplier = Reduced(@)]
         IN  IF missed.attempts_left_for_current_word > 0
             THEN /\ GAME_SESSIONS' = Put(GAME_SESSIONS, session_id, missed)
                  /\ reply' = GameReply("game_answer", session_id, "wrong", 0)
                  /\ UNCHANGED <<games, points, dirty>>
             ELSE NextWord(session_id, missed, "moved_on")

\* POST /api/game/answer; the answer arrives elapsed seconds after the
\* session's last_word_ts
game_answer(session_id, answer, elapsed) ==
    /\ IF session_id \notin DOMAIN GAME_SESSIONS
       THEN /\ reply' = GameReply("game_answer", session_id, "not_found", 0)
            /\ UNCHANGED <<GAME_SESSIONS, games, points, dirty>>
       ELSE LET session == GAME_SESSIONS[session_id]
                timed_out == elapsed > WORD_TIME_LIMIT
            IN  /\ timed_out
                      => session.attempts_left_for_current_word > -MaxOverdraw
                /\ Judge(session_id,
                         IF timed_out
                         THEN [session EXCEPT
                                  !.attempts_left_for_current_word = @ - 1]
                         ELSE session,
                         answer, timed_out)
    /\ UNCHANGED <<now, pending, verified, join_requests, users, base_amount,
                   cursor, th, served, environ, ocr>>

GameNext ==
    \/ \E user_id \in {0, 1}, words \in Samples, session_id \in SessionIds :
          game_start(user_id, words, session_id)
    \/ \E session_id \in SessionIds, answer \in Answers, elapsed \in Elapsed :
          game_answer(session_id, answer, elapsed)

InitGame ==
    /\ AtStart
    /\ pending = << >>
    /\ verified = << >>
    /\ environ = Configured
    /\ ocr = NoOcr

\* the spelling game on a backend that has just started
SpecGame == InitGame /\ [][GameNext]_vars

----------------------------------------------------------------------------
(* Properties                                                              *)

\* the row handle_receipt works on: the first pending row of the user
HasPending(u) == SelectByUser(pending, u) # << >>
FirstRow(u)   == SelectByUser(pending, u)[1]

\* the user has a pending payment that no sweep at the present time removes
HasLivePending(u) ==
    \E i \in 1..Len(pending) :
        pending[i].user_id = u /\ ~(pending[i].expiry_at < now)

\* the four conditions of a receipt, each evaluated on its own, and the
\* amount read from it
Independent(lines, detected_amount, expected_amount, ref) ==
    [failed |->
        (IF AmountMatches(detected_amount, expected_amount)
         THEN {} ELSE {"amount"})
        \cup (IF ReceiverFound(lines) THEN {} ELSE {"receiver"})
        \cup (IF ReferenceFound(lines, ref) THEN {} ELSE {"reference"})
        \cup (IF StatusFound(lines) THEN {} ELSE {"success_status"}),
     detected |-> detected_amount]

ReadableTexts == UploadTexts(BotPrefix) \ {NoneText, EmptyText}

BotFacts ==
    [t \in ReadableTexts |->
        [a \in ExpectedAmounts |->
            [r \in generate_reference(BotPrefix) |->
                Independent(StrippedLines(t), extract_amount_from_text(t, a),
                            a, r)]]]

\* C1: in every reachable state each requester has at most one pending
\* payment, whichever entry point the create requests came through.
C1_AtMostOnePendingPerRequester ==
    \A u \in Users : Len(SelectByUser(pending, u)) <= 1

OneVerifiedPerReference ==
    \A i, j \in 1..Len(verified) : verified[i].ref = verified[j].ref => i = j

\* a receipt of u that passes the checks while row, the unexpired pending
\* row it is verified against, has a reference the verified ledger holds
\* already, is answered with an error and adds no verified row
SecondMarkFails(u, row) ==
    (/\ ~Expired(row, now)
     /\ ~PkFree(verified, row.ref))
    => \A text \in ReadableTexts :
         BotVerdicts[text][row.amount][row.ref].accepted
         => \A d \in {0, TickLen} :
              handle_receipt(u, text, d)
              => /\ reply'.result = "error"
                 /\ verified' = verified

C3_MoveIsAllOrNothing ==
    [][(reply'.op = "receipt" /\ (pending' # pending \/ verified' # verified))
       => \A u \in Users, text \in UploadTexts(BotPrefix), d \in {0, TickLen} :
            (/\ handle_receipt(u, text, d)
             /\ HasPending(u)
             /\ ~Expired(FirstRow(u), now))
            => (PkFree(pending', FirstRow(u).ref)
                <=> /\ Len(verified') = Len(verified) + 1
                    /\ verified'[Len(verified')].ref = FirstRow(u).ref)]_vars

\* C4: no pending payment becomes a verified payment after its expiry: at
\* every pending->verified transition the clock is at most expiry_at of the
\* request, however long the download and the OCR took.
C4_NoTransitionAfterExpiry ==
    [][(verified' # verified)
       => \A u \in Users, text \in UploadTexts(BotPrefix), d \in {0, TickLen} :
            handle_receipt(u, text, d) => now' <= FirstRow(u).expiry_at]_vars

\* C5: a verification whose DELETE from the pending store finds the row
\* already gone (removed by a sweep while the verification was in flight)
\* inserts no verified payment.
C5_GoneRowIsNotVerified ==
    [][\A t \in Threads :
         (verify_receipt_move(t) /\ PkFree(pending, th[t].row.ref))
         => verified' = verified]_vars

\* C6: when two uploads for the same pending payment have both passed the
\* checks, exactly one of them performs the pending->verified transition:
\* the first of the two to reach the transition inserts the verified row.
C6_ExactlyOneOfTwoMoves ==
    [][\A t \in Threads :
         (/\ verify_receipt_move(t)
          /\ \E o \in Threads \ {t} :
                th[o].pc = "verify_move" /\ th[o].row = th[t].row)
         => Len(verified') = Len(verified) + 1]_vars

\* C7: two interleaved create requests of one requester never leave two
\* pending payments for that requester.
C7_InterleavedCreatesLeaveOne ==
    [][\A t \in Threads :
         create_payment_insert(t)
         => Len(SelectByUser(pending', th[t].user)) <= 1]_vars

\* C8: for a requester that already has a pending payment, a second create
\* request fails with a conflict and leaves the original row unchanged.
C8_SecondCreateConflicts ==
    [][\A u \in Users :
         ((pay(u) \/ button_create_payment(u)) /\ HasLivePending(u))
         => /\ reply'.result = "conflict"
            /\ SelectByUser(pending', u) = SelectByUser(pending, u)]_vars

C10_RejectionNamesEveryFailure ==
    [][(reply'.op = "receipt" /\ reply'.result = "rejected")
       => \A u \in Users, text \in ReadableTexts, d \in {0, TickLen} :
            handle_receipt(u, text, d)
            => /\ reply'.reasons
                    = BotFacts[text][FirstRow(u).amount][FirstRow(u).ref].failed
               /\ reply'.detected
                    = BotFacts[text][FirstRow(u).amount][FirstRow(u).ref].detected]_vars

\* the facts of the receipt text an upload of u is verified against
UploadFacts(u, text) == BotFacts[text][FirstRow(u).amount][FirstRow(u).ref]

\* a receipt in which no amount is found is rejected, the rejection naming
\* the amount condition, and no upload of a readable receipt is answered
\* with the processing error unless the store refused the verified row
NoAmountIsRejected(row, facts) ==
    /\ (facts.detected = NoAmount
        => reply'.result = "rejected" /\ "amount" \in reply'.reasons)
    /\ (reply'.result = "error"
        => facts.failed = {} /\ ~PkFree(verified, row.ref))

\* C11: for every non-empty receipt text, also one in which no amount can be
\* found, verification completes with an accept or reject answer and never
\* raises; with no amount found the answer is a rejection that names the
\* amount condition.
C11_NoAmountIsARejection ==
    [][(reply'.op = "receipt")
       => \A u \in Users, text \in ReadableTexts, d \in {0, TickLen} :
            (/\ HasPending(u)
             /\ handle_receipt(u, text, d)
             /\ ~Expired(FirstRow(u), now))
            => NoAmountIsRejected(FirstRow(u), UploadFacts(u, text))]_vars

\* the answer names the amount condition exactly when the detected amount
\* differs from the expected one by more than 1, and then reports it
WithinToleranceOfOne(row, facts) ==
    facts.detected # NoAmount
    => /\ ("amount" \in reply'.reasons
           <=> Abs(facts.detected - Cents(row.amount)) > Cents(1))
       /\ ("amount" \in reply'.reasons => reply'.detected = facts.detected)

\* C12: the amount condition holds exactly when an amount is detected and
\* abs(found - expected) <= 1; an amount further off is rejected as an
\* amount mismatch that reports the detected value.
C12_AmountWithinOne ==
    [][(reply'.op = "receipt")
       => \A u \in Users, text \in ReadableTexts, d \in {0, TickLen} :
            (/\ HasPending(u)
             /\ handle_receipt(u, text, d)
             /\ ~Expired(FirstRow(u), now))
            => WithinToleranceOfOne(FirstRow(u), UploadFacts(u, text))]_vars

\* C13: an OCR result of None or of the empty string is answered as an
\* unreadable image: none of the four conditions is evaluated or named, no
\* amount is reported, and the pending payment stays pending.
C13_UnreadableRunsNoCheck ==
    [][\A t \in Threads, text \in {NoneText, EmptyText} :
         verify_receipt_ocr(t, text)
         => /\ reply'.result = "unreadable"
            /\ reply'.reasons \subseteq {"unreadable"}
            /\ reply'.detected = NoAmount
            /\ pending' = pending /\ verified' = verified]_vars

\* C14: a receipt upload that ends in a rejection, in an unreadable image or
\* in a failure leaves the pending store and the verified ledger as they
\* were before the upload.
C14_FailedUploadChangesNothing ==
    [][(/\ reply'.op = "receipt"
        /\ reply'.result \in {"rejected", "unreadable", "error"}
        /\ \E u \in Users, text \in UploadTexts(BotPrefix), d \in {0, TickLen} :
              handle_receipt(u, text, d))
       => pending' = pending /\ verified' = verified]_vars

\* the text contains the reference itself, in any letter case
ContainsReference(text, ref) == TextContains(UpperText(text), Upper(ref))

\* C15: the verification of a pending payment with reference r passes only
\* on a receipt text that contains r itself: a receipt made out for another
\* reference is rejected.
C15_ReceiptBoundToReference ==
    [][\A t \in Threads, text \in UploadTexts(ApiPrefix) \ {NoneText} :
         (verify_receipt_ocr(t, text) /\ th'[t].pc = "verify_move")
         => ContainsReference(text, th[t].row.ref)]_vars

\* C16: admission is single-use: a join request of a user whose join record
\* is already 'approved' is not approved again, so one verified payment
\* yields at most one admission.
C16_AdmissionIsSingleUse ==
    [][\A u \in Users, approved \in BOOLEAN :
         (join_requests[u] = "approved" /\ handle_join_request(u, approved))
         => reply'.result # "approved"]_vars

\* C17: the join record is marked 'approved' only after the chat platform
\* has confirmed the approval; when the approval call fails the record and
\* the verified ledger are unchanged, so the user can still be admitted.
C17_CreateThenCommit ==
    [][\A u \in Users, approved \in BOOLEAN :
         (/\ HasVerifiedPayment(u) \/ join_requests[u] = "pre_approved"
          /\ handle_join_request(u, approved))
         => /\ (join_requests' # join_requests => reply'.result = "approved")
            /\ (reply'.result # "approved"
                => /\ reply'.result = "error"
                   /\ join_requests' = join_requests
                   /\ verified' = verified)]_vars

\* C17 witness: the approval call of a pre-approved user has failed and the
\* user's join record is still 'pre_approved'.
C17_Witness ==
    /\ reply.op = "join" /\ reply.result = "error"
    /\ join_requests[reply.user] = "pre_approved"

\* C18: a join request is approved only for a user that has a verified
\* payment or a 'pre_approved' join record; for any other user no approval
\* is made and a join record with status 'pending' is stored.
C18_OnlyPayersAreAdmitted ==
    [][\A u \in Users, approved \in BOOLEAN :
         handle_join_request(u, approved)
         => /\ (reply'.result = "approved"
                => \/ \E i \in 1..Len(verified) : verified[i].user_id = u
                   \/ join_requests[u] = "pre_approved")
            /\ ((/\ \A i \in 1..Len(verified) : verified[i].user_id # u
                 /\ join_requests[u] # "pre_approved")
                => /\ reply'.result = "pending"
                   /\ join_requests'[u] = "pending")]_vars

\* C18 witness: a user without a payment has asked to join and waits as
\* 'pending', while another user's payment is verified.
C18_Witness ==
    /\ reply.op = "join" /\ reply.result = "pending"
    /\ join_requests[reply.user] = "pending"
    /\ \E i \in 1..Len(verified) : verified[i].user_id # reply.user

\* C19: a status lookup of a user made later than expiry_at of one of the
\* user's pending payments does not report that payment as pending, and the
\* payment is absent from the pending store afterwards.
C19_LookupAfterExpiryRemoves ==
    [][\A u \in Users :
         (check(u) \/ button_check_payment(u))
         => \A i \in 1..Len(pending) :
              (pending[i].user_id = u /\ now > pending[i].expiry_at)
              => /\ (reply'.ref = pending[i].ref => reply'.result # "pending")
                 /\ PkFree(pending', pending[i].ref)]_vars

\* the store after one sweep is the store after a second sweep at that time
SweptAgain(once) == cleanup_expired_payments(once, now) = once

\* C20: the expiry sweep is idempotent: run twice in succession at the same
\* clock value, the second run leaves the store as the first run left it.
C20_SweepIsIdempotent == SweptAgain(cleanup_expired_payments(pending, now))

\* C20 witness: a store from which the sweep removes one payment and keeps
\* another.
C20_Witness ==
    /\ cleanup_expired_payments(pending, now) # pending
    /\ cleanup_expired_payments(pending, now) # << >>

\* the rows a step adds to verified_payments
NewVerified(before, after) ==
    {i \in 1..Len(after) : \A j \in 1..Len(before) : before[j] # after[i]}

\* C21: every verified payment is inserted by a step that finds a pending
\* payment with the same reference, the same requester and the same amount;
\* none is inserted for a requester who has no pending payment
C21_VerifiedComesFromPending ==
    [][\A i \in NewVerified(verified, verified') :
          \E k \in 1..Len(pending) :
              /\ pending[k].ref = verified'[i].ref
              /\ pending[k].user_id = verified'[i].user_id
              /\ pending[k].amount = verified'[i].amount]_vars

\* the pending payments a creation finds: /pay sweeps first, the button and
\* the backend's INSERT do not
FoundByCreate(op) ==
    IF op = "pay" THEN cleanup_expired_payments(pending, now) ELSE pending

CreationKeepsRows(found) ==
    /\ Len(pending') <= Len(found) + 1
    /\ SubSeq(pending', 1, Len(found)) = found
    /\ Len(pending') = Len(found) + 1
         => /\ reply'.result = "created"
            /\ pending'[Len(pending')].ref \notin Refs(found)
    /\ reply'.result = "error" => pending' = found

\* C22: a creation whose generated reference equals the reference of an
\* existing pending payment fails with an error the requester can retry
\* after: no row is added, every existing pending payment is left as it
\* was, and a row is only ever added under a reference no existing row has.
C22_CollisionFailsCreation ==
    [][(reply'.op \in {"pay", "create_payment"}) =>
         \A u \in Users :
            (pay(u) \/ button_create_payment(u))
            => CreationKeepsRows(FoundByCreate(reply'.op))]_vars

\* C22 witness: a creation has failed on a reference that a pending payment
\* of another requester holds, and that payment is still there.
C22_Witness ==
    /\ reply.op \in {"pay", "create_payment"}
    /\ reply.result = "error"
    /\ \E i \in 1..Len(pending) : pending[i].user_id # reply.user

\* C23: either extractor returns no amount or an amount of at least 50 and
\* at most 1,000,000; a text whose only number lies outside that window
\* yields no amount.
C23_ResultInWindow ==
    reply.op = "extract_amount_from_text" =>
        reply.detected = NoAmount \/ InWindow(reply.detected)

\* the bot's extractor has answered for the text in ocr
BotExtracted ==
    reply.op = "extract_amount_from_text" /\ reply.result = "bot"

\* C24: the bot's extractor never returns 2024, 2025 or 2026, whichever of
\* its strategies produces the result.
C24_NeverAYear == BotExtracted => NotYear(reply.detected)

\* the lines of a text that hold a decimal point
DecimalLines(text) == {i \in 1..Len(text) : Contains(text[i], ".")}

\* a line that is one grouped integer with two decimals, inside the window
IsPlausibleMoney(line) ==
    /\ IsMoneyLine(line)
    /\ Len(line) >= 4 /\ Ch(line, Len(line) - 2) = "."
    /\ InWindow(ParseCents(line))

\* the text holds exactly one money token and no other decimal number
SoleMoneyToken(text) ==
    /\ Cardinality(DecimalLines(text)) = 1
    /\ \A i \in DecimalLines(text) : IsPlausibleMoney(text[i])

\* C25: on a text that holds exactly one grouped-integer-plus-two-decimals
\* token with a value in the window and no other decimal money token, the
\* bot's extractor returns that value to within 0.01, whatever dates,
\* telephone numbers, references and short integers stand around it.
C25_SoleMoneyTokenIsReturned ==
    (BotExtracted /\ SoleMoneyToken(ocr.text)) =>
        \A i \in DecimalLines(ocr.text) :
            Abs(reply.detected - ParseCents(ocr.text[i])) <= 1

\* the line holds a month name or one of the years the scan looks for
IsDateLine(line) == \E w \in DateWords : Contains(Upper(Strip(line)), w)

\* the first pass over the lines returns the token of line i
FirstPassReturns(text, i) ==
    /\ PalmPayLine(text[i]) # NoAmount
    /\ \A j \in 1..(i - 1) : PalmPayLine(text[j]) = NoAmount

\* C26: the decimal-money scan skips every line that holds a month name or
\* one of the strings 2024, 2025, 2026: the money token of such a line is
\* never what the scan returns.
C26_DateLinesAreSkipped ==
    BotExtracted =>
        \A i \in 1..Len(ocr.text) :
            (IsDateLine(ocr.text[i]) /\ FirstPassReturns(ocr.text, i))
            => reply.detected # PalmPayLine(ocr.text[i])

\* the reference without its textual prefix: the six digits
NumericPart(ref) == SubSeq(ref, Len(ref) - 5, Len(ref))

\* once the amount and the receiver have passed, the answer names the
\* reference exactly when neither the reference nor its digits are in the text
ReferenceOrItsDigits(row, text, facts) ==
    (facts.failed \cap {"amount", "receiver"} = {})
    => ("reference" \in reply'.reasons
        <=> ~(\/ ContainsReference(text, row.ref)
              \/ TextContains(text, NumericPart(row.ref))))

\* C27: the reference condition holds if and only if the full reference
\* occurs in the receipt text, compared without regard to case, or, when it
\* does not, the reference with its prefix stripped occurs in the text.
C27_ReferenceOrNumericPart ==
    [][(reply'.op = "receipt")
       => \A u \in Users, text \in ReadableTexts, d \in {0, TickLen} :
            (/\ HasPending(u)
             /\ handle_receipt(u, text, d)
             /\ ~Expired(FirstRow(u), now))
            => ReferenceOrItsDigits(FirstRow(u), text, UploadFacts(u, text))]_vars

\* the entry is a verified payment of the requester
IsVerifiedOf(entry, u) ==
    /\ entry.status = "verified"
    /\ \E j \in 1..Len(verified) :
          /\ verified[j].ref = entry.ref
          /\ verified[j].user_id = u
          /\ verified[j].amount = entry.amount
          /\ verified[j].verified_at = entry.time

HistoryOf(op, u, rows) ==
    /\ \A i \in 1..Len(rows) : IsVerifiedOf(rows[i], u)
    /\ \A i, j \in 1..Len(rows) : i < j => rows[i].time >= rows[j].time
    /\ Len(rows) <= IF op = "history" THEN HistoryLimit ELSE ApiVerifiedLimit

\* C28: a history answer holds only verified payments of the requester, the
\* most recent first, and never more of them than the limit; payments of
\* other requesters and pending payments never appear in it.
C28_HistoryShowsVerifiedOnly ==
    reply.op \in {"history", "payment_history"} =>
        HistoryOf(reply.op, reply.user, reply.rows)

\* C29: the bot refuses to start when the bot token, the administrator
\* identity, the target group, the recipient display name or the recipient
\* account identifier is not set: it never runs its handlers with one of
\* them missing.
C29_StartsOnlyFullyConfigured ==
    (reply.op = "main" /\ reply.result = "running")
    => \A k \in EnvKeys : environ[k] # Unset

\* the sweep keeps the rows with now <= expiry_at, in their order, and
\* removes the others
SweepIsExact(swept) ==
    swept = SelectSeq(pending, LAMBDA r : now <= r.expiry_at)

\* /check, which sweeps and then only reads an unexpired row, leaves every
\* pending payment with now <= expiry_at in place and nothing else
CheckSweeps ==
    /\ pending' = SelectSeq(pending, LAMBDA r : now <= r.expiry_at)
    /\ verified' = verified
    /\ join_requests' = join_requests
    /\ base_amount' = base_amount

\* C30: the expiry sweep removes exactly the pending payments with
\* expiry_at < now: one with now <= expiry_at, also with now = expiry_at, is
\* never removed by it, and the sweep leaves the verified ledger, the join
\* records and the price setting as they were.
C30_SweepRemovesExactlyExpired ==
    /\ [](SweepIsExact(cleanup_expired_payments(pending, now)))
    /\ [][(reply'.op = "check") => \A u \in Users : check(u) => CheckSweeps]_vars

\* C30 witness: /check has run at the very moment the requester's pending
\* payment expires, and has found it still pending.
C30_Witness ==
    /\ reply.op = "check" /\ reply.result = "pending"
    /\ now > 0
    /\ \E i \in 1..Len(pending) :
          pending[i].ref = reply.ref /\ pending[i].expiry_at = now

\* C31: the pending payment a status check (/check or the check_payment
\* button) reports to a requester is the record the requester's next
\* receipt upload is verified against: the same reference, and with it the
\* same expected amount and expiry.
C31_CheckedIsVerifiedAgainst ==
    [][(/\ reply.op \in {"check", "check_payment"}
        /\ reply.result = "pending"
        /\ reply'.op = "receipt"
        /\ reply'.user = reply.user)
       => reply'.ref = reply.ref]_vars

\* C32: no reference is in the pending store and in the verified ledger at
\* the same time: a reference that has been verified is never issued to a
\* new pending payment.
C32_ReferenceNeverReissued == Refs(pending) \cap Refs(verified) = {}

\* the price after /setprice: the number given by the administrator when it
\* lies between 50 and 100,000, the price before otherwise
PriceAfter(i, arg) ==
    IF /\ i = ADMIN_ID
       /\ IsNumber(arg)
       /\ 50 <= DigitsValue(arg, 1, 0)
       /\ DigitsValue(arg, 1, 0) <= 100000
    THEN DigitsValue(arg, 1, 0)
    ELSE base_amount

\* an upload is judged against the amount the pending payment was created
\* with, and a verified payment carries that amount
JudgedAgainstCreation(row, facts) ==
    /\ ("amount" \in reply'.reasons <=> "amount" \in facts.failed)
    /\ reply'.result = "verified"
         => verified'[Len(verified')].amount = row.amount

\* C33: /setprice changes the price of the requests created afterwards only:
\* it leaves every pending payment as it is, a receipt is verified against
\* the amount its pending payment was created with, and /setprice takes
\* only amounts from 50 to 100,000 and leaves the price as it is otherwise.
C33_PriceChangeIsNotRetroactive ==
    /\ [][(reply'.op = "setprice")
          => \A i \in {1, ADMIN_ID}, arg \in PriceArgs :
                setprice(i, arg)
                => /\ pending' = pending
                   /\ verified' = verified
                   /\ base_amount' = PriceAfter(i, arg)]_vars
    /\ [][(reply'.op = "receipt")
          => \A text \in PriceReceipts :
                (HasPending(1) /\ handle_receipt(1, text, 0))
                => JudgedAgainstCreation(FirstRow(1), UploadFacts(1, text))]_vars
    /\ [][\A k \in 1..Len(pending) :
            k <= Len(pending') /\ pending'[k].ref = pending[k].ref
            => pending'[k] = pending[k]]_vars

\* C33 witness: a receipt has been verified for the amount its request was
\* created with after the price was changed to another amount.
C33_Witness ==
    /\ reply.op = "receipt" /\ reply.result = "verified"
    /\ \E k \in 1..Len(verified) :
          verified[k].ref = reply.ref /\ verified[k].amount # base_amount

\* what a step of /approve or /decline given by issuer i with argument arg
\* may do to the join records when the chat platform answers ok to the call
DecidedOnlyAfterCall(done, i, arg, ok) ==
    LET acts == /\ i = ADMIN_ID
                /\ IsNumber(arg)
                /\ DigitsValue(arg, 1, 0) \in Users
                /\ join_requests[DigitsValue(arg, 1, 0)] = "pending"
    IN  /\ \A u \in Users :
              join_requests'[u] # join_requests[u]
                  => /\ acts
                     /\ ok
                     /\ u = DigitsValue(arg, 1, 0)
                     /\ join_requests'[u] = done
        /\ (acts /\ ok)
              => /\ join_requests'[DigitsValue(arg, 1, 0)] = done
                 /\ reply'.result = done
        /\ (acts /\ ~ok)
              => /\ join_requests' = join_requests
                 /\ reply'.result = "error"
        /\ ~acts => reply'.result \notin {done, "error"}

\* C34: /approve and /decline change a join record only when it exists with
\* status 'pending'; the status becomes 'approved' or 'declined' only when
\* the chat platform's call returned without error, and when that call fails
\* the failure is reported and the record stays 'pending'
C34_DecisionFollowsPlatformCall ==
    /\ [][(reply'.op = "approve")
            => \A i \in Issuers, arg \in TargetArgs, ok \in BOOLEAN :
                  approve_request(i, arg, ok)
                      => DecidedOnlyAfterCall("approved", i, arg, ok)]_vars
    /\ [][(reply'.op = "decline")
            => \A i \in Issuers, arg \in TargetArgs, ok \in BOOLEAN :
                  decline_request(i, arg, ok)
                      => DecidedOnlyAfterCall("declined", i, arg, ok)]_vars

C34_Witness ==
    /\ reply.op \in {"approve", "decline"}
    /\ reply.result = "error"
    /\ join_requests[reply.user] = "pending"
    /\ \E u \in Users : join_requests[u] \in {"approved", "declined"}

\* the commands reserved to the administrator, as issuer i gives them
AdminCommand(i) ==
    \/ \E arg \in PriceArgs : setprice(i, arg)
    \/ pricesettings(i)
    \/ stats(i)
    \/ pending_requests(i)
    \/ \E arg \in TargetArgs, ok \in BOOLEAN : approve_request(i, arg, ok)
    \/ \E arg \in TargetArgs, ok \in BOOLEAN : decline_request(i, arg, ok)

AdminOps ==
    {"setprice", "pricesettings", "stats", "pendingrequests", "approve",
     "decline"}

\* C35: a command of the administrator given by anyone whose id differs from
\* ADMIN_ID leaves the price, every join record and every payment record
\* unchanged, and ends with the refusal alone: neither the approve nor the
\* decline call of the chat platform is reached
C35_OthersChangeNothing ==
    [][(reply'.op \in AdminOps)
          => \A i \in Issuers \ {ADMIN_ID} :
                AdminCommand(i)
                    => /\ UNCHANGED <<base_amount, join_requests, pending,
                                      verified>>
                       /\ reply'.result = "admin_only"]_vars

C35_Witness ==
    /\ reply.op = "approve"
    /\ reply.result = "admin_only"
    /\ reply.user # ADMIN_ID
    /\ join_requests[reply.user] = "pending"
    /\ pending # << >>
    /\ verified # << >>

\* the step is an answer to session sid that found the session and left it
\* in memory
Answered(sid) ==
    /\ reply'.op = "game_answer"
    /\ reply'.ref = sid
    /\ sid \in DOMAIN GAME_SESSIONS
    /\ sid \in DOMAIN GAME_SESSIONS'

AttemptsLeft(session) == session.attempts_left_for_current_word

\* C36: every word allows up to 3 attempts: an answer that is wrong or timed
\* out takes exactly one attempt from the current word, and the session
\* leaves a word that was not spelled only on the third missed attempt.
C36_MissTakesOneAttempt ==
    [][\A sid \in SessionIds :
          Answered(sid)
              => /\ (reply'.result = "wrong")
                        => /\ GAME_SESSIONS'[sid].index
                                  = GAME_SESSIONS[sid].index
                           /\ AttemptsLeft(GAME_SESSIONS'[sid])
                                  = AttemptsLeft(GAME_SESSIONS[sid]) - 1
                 /\ (reply'.result = "moved_on")
                        => AttemptsLeft(GAME_SESSIONS[sid]) = 1]_vars

\* C37: the answer that finishes a session adds 10 * correct * multiplier
\* to the points of its user and removes the session, and from then on
\* every answer for that session id is rejected as 'Session not found' and
\* changes no points, so that a session pays once.
C37_FinishedSessionPaysOnce ==
    [][\A sid \in SessionIds :
          (reply'.op = "game_answer" /\ reply'.ref = sid)
              => /\ (reply'.result = "finished")
                        => /\ sid \in DOMAIN GAME_SESSIONS
                           /\ sid \notin DOMAIN GAME_SESSIONS'
                           /\ reply'.points_earned
                                  = 10 * games'[sid].correct
                                       * games'[sid].final_multiplier
                           /\ points' =
                                  [points EXCEPT
                                      ![games'[sid].user_id] =
                                          @ + reply'.points_earned]
                 /\ (sid \in DOMAIN games)
                        => /\ reply'.result = "not_found"
                           /\ points' = points]_vars

\* the sessions in memory
Live == {GAME_SESSIONS[sid] : sid \in DOMAIN GAME_SESSIONS}

\* the multiplier after an answer that missed: one less, but not below 1
AfterMiss(multiplier) == IF multiplier > 1 THEN multiplier - 1 ELSE 1

\* the answer arrives too late, or is not the spelling of the current word
Missed(session, answer, elapsed) ==
    \/ elapsed > WORD_TIME_LIMIT
    \/ /\ session.index < Len(session.words)
       /\ Lower(Strip(answer)) # session.words[session.index + 1]

\* what an answer found for session sid does to the multiplier of the
\* session, read from the session or from the archive it has moved to
MultiplierStep(sid, answer, elapsed) ==
    LET before == GAME_SESSIONS[sid].multiplier
        after == IF sid \in DOMAIN GAME_SESSIONS'
                 THEN GAME_SESSIONS'[sid].multiplier
                 ELSE games'[sid].final_multiplier
    IN  after = IF Missed(GAME_SESSIONS[sid], answer, elapsed)
                THEN AfterMiss(before)
                ELSE before

\* C38: the multiplier of a session starts at 3, goes down by one with every
\* answer that is wrong or timed out until it is 1, never goes up and is
\* never below 1.
C38_MultiplierFallsWithEveryMiss ==
    /\ [](\A session \in Live :
             session.multiplier \in 1..FirstMultiplier)
    /\ [][(reply'.op = "game_start" /\ reply'.result = "ok")
              => GAME_SESSIONS'[reply'.ref].multiplier = 3]_vars
    /\ [][(reply'.op = "game_answer")
              => \A sid \in DOMAIN GAME_SESSIONS :
                   \A answer \in Answers, elapsed \in Elapsed :
                      game_answer(sid, answer, elapsed)
                          => MultiplierStep(sid, answer, elapsed)]_vars

\* the answers a session may still take: 3 for every word after the current
\* one, and the attempts left on the current word
AnswersLeft(session) ==
    FirstAttempts * (Len(session.words) - session.index - 1)
        + session.attempts_left_for_current_word

\* C39: every session is finished after at most 15 answers, whatever the
\* answers and their timing: 5 words with 3 attempts each, every answer
\* either ends the session or takes at least one of the answers it has
\* left; and while a session is in memory its index is below the number of
\* its words.
C39_SessionEndsWithinFifteenAnswers ==
    /\ [](\A session \in Live :
             /\ session.index < Len(session.words)
             /\ AnswersLeft(session) \in 1..(FirstAttempts * words_count))
    /\ [][\A sid \in SessionIds :
             Answered(sid)
                 => AnswersLeft(GAME_SESSIONS'[sid])
                        < AnswersLeft(GAME_SESSIONS[sid])]_vars

====
